---- MODULE Spec2Model ----
(***************************************************************************)
(* State-machine model of the CudaText "Sync Editing" plugin               *)
(* (src/__init__.py): the scanner, the token index (dictionary and         *)
(* line_index), the Selection/Editing state machine and the live-edit      *)
(* propagator (redraw), together with the host editor they run against     *)
(* (text lines, carets, markers, timers).                                  *)
(*                                                                         *)
(* Columns and line numbers are 0-based as in the source; TLA+ sequences   *)
(* are 1-based, so the character at column x of a line is line[x + 1].     *)
(* A text line is a sequence of one-character strings.                     *)
(***************************************************************************)
EXTENDS Integers, Sequences, FiniteSets, TLC

VARIABLES
  docs,                         \* handle -> host editor state of an open document
  sessions,                     \* Command.sessions: handle -> SyncEditSession
  pending_delay_handles,        \* Command.pending_delay_handles
  pending_lexer_parse_handles,  \* Command.pending_lexer_parse_handles
  active_scroll_handles,        \* Command.active_scroll_handles
  active_caret_handles,         \* Command.active_caret_handles
  lexer_parsed_message_shown,   \* Command.lexer_parsed_message_shown
  selection_scroll_handles,     \* Command.selection_scroll_handles
  timers,                       \* host timers armed by timer_proc: <<callback, tag>> -> number pending
  status,                       \* text of the last msg_status call of the last event
  boxes,                        \* msg_box advisories shown since the last reload, per handle
  last,                         \* the last event handled: its document, inputs and result
  nkeys                         \* number of keystrokes the editor has acted on

vars == <<docs, sessions, pending_delay_handles, pending_lexer_parse_handles,
          active_scroll_handles, active_caret_handles, lexer_parsed_message_shown,
          selection_scroll_handles, timers, status, boxes, last, nkeys>>

(***************************************************************************)
(* Bounds of the model.                                                    *)
(***************************************************************************)
MaxKeys == 2          \* text-changing keystrokes per behaviour
MaxDocKeys == 1       \* the same, in the behaviours with two documents

(***************************************************************************)
(* Python's None, per type of the field that holds it.                     *)
(***************************************************************************)
NoneKey == <<"None">>       \* our_key = None (no character is "None")
NoneInt == -1               \* original_occurrence_index / cached_carets_count = None
NonePos == <<>>             \* original = None
NoneList == <<-1>>          \* cached_carets_lines = None
EmptyFcn == [x \in {} |-> 0]

H == 1                      \* the handle of the document of Spec
Handles == {1, 2}

(***************************************************************************)
(* Characters and the identifier regular expression.                       *)
(* IDENTIFIER_REGEX_DEFAULT = r'\w+': a word character is any character    *)
(* but the separators.                                                     *)
(***************************************************************************)
WordChars == {"a", "b", "x", "A"}
Sep == " "

Lower(c) == IF c = "A" THEN "a" ELSE c

LowerStr(s) == [i \in 1..Len(s) |-> Lower(s[i])]

\* a key_normalizer that folds case whatever the setting
FoldCase(case_sensitive, s) == LowerStr(s)

\* key_normalizer of start_sync_edit
key_normalizer(case_sensitive, s) == IF case_sensitive THEN s ELSE LowerStr(s)

\* session.regex_identifier.match(line[p:]) is not None
RegexMatch(line, p) == p >= 0 /\ p < Len(line) /\ line[p + 1] \in WordChars

RECURSIVE RunEnd(_, _)
\* end column of the match of the regex at column p (p itself when there is none)
RunEnd(line, p) ==
  IF p < Len(line) /\ line[p + 1] \in WordChars THEN RunEnd(line, p + 1) ELSE p

\* match.group(0) of session.regex_identifier.match(line[p:])
MatchGroup(line, p) == SubSeq(line, p + 1, RunEnd(line, p))

RECURSIVE FindIterFrom(_, _)
\* regex.finditer(line): the spans <<mstart, mend>> of the matches from column p on
FindIterFrom(line, p) ==
  IF p >= Len(line) THEN <<>>
  ELSE IF line[p + 1] \in WordChars
       THEN <<<<p, RunEnd(line, p)>>>> \o FindIterFrom(line, RunEnd(line, p))
       ELSE FindIterFrom(line, p + 1)

FindIter(line) == FindIterFrom(line, 0)

(***************************************************************************)
(* Sequence helpers.                                                       *)
(***************************************************************************)
RECURSIVE Flatten(_)
Flatten(ss) == IF ss = <<>> THEN <<>> ELSE Head(ss) \o Flatten(Tail(ss))

Range(s) == {s[i] : i \in 1..Len(s)}

\* the indices 1..n that satisfy P, ascending
Indices(n, P(_)) == SelectSeq([i \in 1..n |-> i], P)

\* (y, x) order of Python tuples
PosLess(y1, x1, y2, x2) == y1 < y2 \/ (y1 = y2 /\ x1 < x2)

RECURSIVE InsertYX(_, _)
\* one step of list.sort(key=lambda m: (m[0], m[1])) on tuples <<y, x, ...>>: the sort
\* is stable, so e goes after the elements whose key is not greater
InsertYX(s, e) ==
  IF s = <<>> THEN <<e>>
  ELSE IF PosLess(e[1], e[2], Head(s)[1], Head(s)[2]) THEN <<e>> \o s
       ELSE <<Head(s)>> \o InsertYX(Tail(s), e)

RECURSIVE SortYX(_)
SortYX(s) ==
  IF s = <<>> THEN <<>>
  ELSE InsertYX(SortYX(SubSeq(s, 1, Len(s) - 1)), s[Len(s)])

(***************************************************************************)
(* The host editor (cudatext.Editor), as far as the plugin uses it.        *)
(* A caret is <<x, y, x2, y2>>; x2 = y2 = -1 when it carries no selection. *)
(* get_carets() returns the carets sorted by (y, x).                       *)
(***************************************************************************)
CaretLess(a, b) == PosLess(a[2], a[1], b[2], b[1])

RECURSIVE InsertCaret(_, _)
\* the host keeps one caret per position, in (y, x) order
InsertCaret(cs, c) ==
  IF cs = <<>> THEN <<c>>
  ELSE IF Head(cs)[1] = c[1] /\ Head(cs)[2] = c[2] THEN cs
       ELSE IF CaretLess(c, Head(cs)) THEN <<c>> \o cs
            ELSE <<Head(cs)>> \o InsertCaret(Tail(cs), c)

RECURSIVE NormCarets(_)
NormCarets(cs) ==
  IF cs = <<>> THEN <<>>
  ELSE InsertCaret(NormCarets(SubSeq(cs, 1, Len(cs) - 1)), cs[Len(cs)])

\* ed.set_caret(x, y, x2, y2, id=CARET_SET_ONE)
SetCaretOne(d, x, y, x2, y2) == [d EXCEPT !.carets = <<<<x, y, x2, y2>>>>]

\* ed.set_caret(x, y, id=CARET_ADD)
AddCaret(d, x, y) == [d EXCEPT !.carets = InsertCaret(d.carets, <<x, y, -1, -1>>)]

\* ed.get_text_line(y)
TextLine(d, y) == d.lines[y + 1]

\* ed.get_line_len(y)
LineLen(d, y) == Len(d.lines[y + 1])

\* the caret of a selection with its ends in (y, x) order
SortedSel(c) ==
  IF PosLess(c[4], c[3], c[2], c[1]) THEN <<c[3], c[4], c[1], c[2]>> ELSE c

\* ed.get_text_sel() is not empty: one caret that carries a non-empty selection
HasTextSel(d) ==
  /\ Len(d.carets) = 1
  /\ d.carets[1][4] >= 0
  /\ <<d.carets[1][1], d.carets[1][2]>> # <<d.carets[1][3], d.carets[1][4]>>

\* ed.get_sel_lines(): first and last line of the selection; a selection that ends at
\* column 0 of a line does not include that line (comment at lines 841-843)
GetSelLines(d) ==
  LET c == SortedSel(d.carets[1])
  IN  <<c[2], IF c[3] = 0 /\ c[4] > c[2] THEN c[4] - 1 ELSE c[4]>>

\* ed.set_sel_rect(0,0,0,0): the selection is dropped
SetSelRectNone(d) ==
  [d EXCEPT !.carets = [i \in 1..Len(d.carets) |->
                          <<d.carets[i][1], d.carets[i][2], -1, -1>>]]

\* ed.attr(MARKERS_DELETE_BY_TAG, tag=MARKER_CODE)
DeleteMarkers(d) == [d EXCEPT !.markers = <<>>]

\* ed.attr(MARKERS_ADD, ...) for each marker of ms, in order
AddMarkers(d, ms) == [d EXCEPT !.markers = d.markers \o ms]

(***************************************************************************)
(* The host's tokenizer: ed.get_token(TOKEN_LIST_SUB, start_l, end_l).     *)
(* It yields nothing until the document is parsed; then one token per      *)
(* identifier run, styled "Id", or "Id keyword" for the language's         *)
(* keywords.                                                               *)
(***************************************************************************)
LexKeywords == {<<"a", "b">>}

HostStyle(word) == IF word \in LexKeywords THEN "Id keyword" ELSE "Id"

LexLine(d, y) ==
  LET line == TextLine(d, y)
      sp == FindIter(line)
  IN  [i \in 1..Len(sp) |->
         [x1 |-> sp[i][1], y1 |-> y, x2 |-> sp[i][2], y2 |-> y,
          str |-> SubSeq(line, sp[i][1] + 1, sp[i][2]),
          style |-> HostStyle(SubSeq(line, sp[i][1] + 1, sp[i][2]))]]

GetToken(d, start_l, end_l) ==
  IF ~d.parsed THEN <<>>
  ELSE Flatten([k \in 1..(end_l - start_l + 1) |-> LexLine(d, start_l + k - 1)])

(***************************************************************************)
(* Configuration and constants of the plugin.                              *)
(***************************************************************************)
NAIVE_LEXERS == {"Markdown"}

\* re.compile(IDENTIFIER_STYLE_INCLUDE_DEFAULT).match(style)
IncludeMatch(style) == style \in {"Id", "Id keyword"}

\* re.compile(IDENTIFIER_STYLE_EXCLUDE_DEFAULT).match(style)
ExcludeMatch(style) == style \in {"Id keyword", "Keyword"}

\* style_valid[style] of start_sync_edit
StyleValid(style) == IncludeMatch(style) /\ ~ExcludeMatch(style)

(***************************************************************************)
(* TokenRef and SyncEditSession.  TokenRef objects are shared by           *)
(* reference between dictionary and line_index: the session keeps them in  *)
(* `tokens` (identity -> fields), and both indexes hold identities.        *)
(***************************************************************************)
TokenRef(start_x, start_y, end_x, end_y, text, style) ==
  [start_x |-> start_x, start_y |-> start_y, end_x |-> end_x, end_y |-> end_y,
   text |-> text, style |-> style]

\* a shift that moves the end of the token only
ShiftEnd(t, delta) == [t EXCEPT !.end_x = @ + delta]

\* a shift that moves the start only
ShiftStart(t, delta) == [t EXCEPT !.start_x = t.start_x + delta]

\* TokenRef.shift
shift(t, delta) == [t EXCEPT !.start_x = t.start_x + delta, !.end_x = t.end_x + delta]

\* SyncEditSession.__init__
NewSession ==
  [selected |-> FALSE, editing |-> FALSE,
   line_index |-> EmptyFcn, dictionary |-> EmptyFcn, tokens |-> EmptyFcn,
   our_key |-> NoneKey, original |-> NonePos, start_l |-> NoneInt, end_l |-> NoneInt,
   use_colors |-> TRUE, use_simple_naive_mode |-> FALSE, case_sensitive |-> TRUE,
   original_occurrence_index |-> NoneInt,
   cached_carets_count |-> NoneInt, cached_carets_lines |-> NoneList]

(***************************************************************************)
(* The plugin's state as one value, so that a handler is an operator from  *)
(* states to states and a handler that calls another composes them.        *)
(***************************************************************************)
World ==
  [docs |-> docs, sessions |-> sessions,
   pending_delay_handles |-> pending_delay_handles,
   pending_lexer_parse_handles |-> pending_lexer_parse_handles,
   active_scroll_handles |-> active_scroll_handles,
   active_caret_handles |-> active_caret_handles,
   lexer_parsed_message_shown |-> lexer_parsed_message_shown,
   selection_scroll_handles |-> selection_scroll_handles,
   timers |-> timers, status |-> status, boxes |-> boxes]

Set(w) ==
  /\ docs' = w.docs
  /\ sessions' = w.sessions
  /\ pending_delay_handles' = w.pending_delay_handles
  /\ pending_lexer_parse_handles' = w.pending_lexer_parse_handles
  /\ active_scroll_handles' = w.active_scroll_handles
  /\ active_caret_handles' = w.active_caret_handles
  /\ lexer_parsed_message_shown' = w.lexer_parsed_message_shown
  /\ selection_scroll_handles' = w.selection_scroll_handles
  /\ timers' = w.timers
  /\ status' = w.status
  /\ boxes' = w.boxes

\* Command.has_session
has_session(w, h) == h \in DOMAIN w.sessions

\* Command.get_session: the session of h, created when there is none
get_session(w, h) ==
  IF h \in DOMAIN w.sessions THEN w
  ELSE [w EXCEPT !.sessions = (h :> NewSession) @@ w.sessions]

\* a remove_session that forgets to delete the entry
KeepSession(w, h) == w

\* a remove_session that drops every document's entry
ClearSessions(w, h) == [w EXCEPT !.sessions = EmptyFcn]

\* Command.remove_session
remove_session(w, h) ==
  [w EXCEPT !.sessions = [k \in DOMAIN w.sessions \ {h} |-> w.sessions[k]]]

msg_status(w, text) == [w EXCEPT !.status = text]

\* timer_proc(TIMER_STOP, callback, tag=str(handle)): the pending timers of id go
TimerStop(ts, id) == [t \in DOMAIN ts \ {id} |-> ts[t]]

\* timer_proc(TIMER_START_ONE, callback, tag=str(handle)): one more one-shot timer
TimerStartOne(ts, id) ==
  IF id \in DOMAIN ts THEN [ts EXCEPT ![id] = @ + 1] ELSE (id :> 1) @@ ts

\* a one-shot timer of id has fired and is gone
TimerFired(ts, id) ==
  IF ts[id] > 1 THEN [ts EXCEPT ![id] = @ - 1] ELSE TimerStop(ts, id)

(***************************************************************************)
(* Painting.  A marker is <<y, x, len, kind>>, kind "bg" for the coloured  *)
(* background of Selection and "border" for the bordered active word.      *)
(* The tokens are visited in identity (scan) order before the stable sort. *)
(***************************************************************************)
\* the token identities of ids (a sequence) whose line is visible, as markers
VisibleMarkers(ses, d, ids, kind) ==
  LET vis == SelectSeq(ids, LAMBDA i : d.top <= ses.tokens[i].start_y
                                       /\ ses.tokens[i].start_y <= d.bottom)
  IN  SortYX([k \in 1..Len(vis) |->
                <<ses.tokens[vis[k]].start_y, ses.tokens[vis[k]].start_x,
                  ses.tokens[vis[k]].end_x - ses.tokens[vis[k]].start_x, kind>>])

\* the identities held by the dictionary, ascending
DictIds(ses) ==
  LET held == UNION {Range(ses.dictionary[k]) : k \in DOMAIN ses.dictionary}
      n == IF DOMAIN ses.tokens = {} THEN 0
           ELSE CHOOSE m \in DOMAIN ses.tokens : \A j \in DOMAIN ses.tokens : j <= m
  IN  Indices(n, LAMBDA i : i \in held)

\* Command.mark_all_words
mark_all_words(w, h) ==
  LET d == DeleteMarkers(w.docs[h])
      ses == w.sessions[h]
  IN  IF ~ses.use_colors THEN [w EXCEPT !.docs[h] = d]
      ELSE [w EXCEPT !.docs[h] = AddMarkers(d, VisibleMarkers(ses, d, DictIds(ses), "bg"))]

(***************************************************************************)
(* Session lifecycle.                                                      *)
(***************************************************************************)
\* Command.get_visible_selection_line(ed) is not None
HasVisibleSelection(d) ==
  /\ Len(d.carets) = 1
  /\ ~(d.carets[1][4] < 0
       \/ (d.carets[1][2] = d.carets[1][4] /\ d.carets[1][1] = d.carets[1][3]))

\* an update of the gutter icon that tracks the scrolling of every visible selection,
\* with or without session
GutterAnySession(w, h) ==
  IF HasVisibleSelection(w.docs[h])
  THEN [w EXCEPT !.selection_scroll_handles = @ \cup {h}]
  ELSE [w EXCEPT !.selection_scroll_handles = @ \ {h}]

\* Command.update_gutter_icon_on_selection (the icon itself is not modelled)
update_gutter_icon_on_selection(w, h) ==
  IF HasVisibleSelection(w.docs[h])
  THEN IF ~has_session(w, h)
       THEN [w EXCEPT !.selection_scroll_handles = @ \cup {h}]
       ELSE w
  ELSE IF has_session(w, h)
       THEN IF ~w.sessions[h].selected /\ ~w.sessions[h].editing
            THEN [w EXCEPT !.selection_scroll_handles = @ \ {h}]
            ELSE w
       ELSE [w EXCEPT !.selection_scroll_handles = @ \ {h}]

\* a cleanup that leaves the timer and the pending sets as they are
KeepLexerEvents(w, h) == w

\* a cleanup that stops the timer but leaves the handle waiting for the parser
CleanupTimerOnly(w, h) ==
  [w EXCEPT !.timers = TimerStop(@, <<"lexer_timer", h>>),
            !.pending_delay_handles = @ \ {h}]

\* lines 1455-1461 of reset: the 600 ms timer is stopped, the handle waits no more
CleanupLexerEvents(w, h) ==
  [w EXCEPT !.timers = TimerStop(@, <<"lexer_timer", h>>),
            !.pending_delay_handles = @ \ {h},
            !.pending_lexer_parse_handles = @ \ {h}]

\* Command.reset
reset(w0, h, cleanup_lexer_events) ==
  LET w1 == get_session(w0, h)
      ses == w1.sessions[h]
      w2 == [w1 EXCEPT !.active_scroll_handles = @ \ {h},
                       !.active_caret_handles = @ \ {h},
                       !.selection_scroll_handles = @ \ {h}]
      w3 == IF cleanup_lexer_events THEN CleanupLexerEvents(w2, h) ELSE w2
      d3 == IF ses.original # NonePos
            THEN SetCaretOne(w3.docs[h], ses.original[1], ses.original[2], -1, -1)
            ELSE w3.docs[h]
      w4 == [w3 EXCEPT !.docs[h] = DeleteMarkers(d3)]
  IN  msg_status(remove_session(w4, h), "Deactivated")

(***************************************************************************)
(* The scanner (start_sync_edit, steps 4.A and 4.B).                       *)
(* A scan yields the found tokens in discovery order, each with its key.   *)
(***************************************************************************)
\* a naive scan of one line that leaves out the last character of each match
NaiveLineShort(d, y, start_l, end_l, x1, x2, case_sensitive) ==
  LET line == TextLine(d, y)
      sp == SelectSeq(FindIter(line),
                      LAMBDA m : ~(y = start_l /\ m[1] < x1) /\ ~(y = end_l /\ m[2] > x2))
  IN  [i \in 1..Len(sp) |->
         [tok |-> TokenRef(sp[i][1], y, sp[i][2], y,
                           SubSeq(line, sp[i][1] + 1, sp[i][2] - 1), "id"),
          key |-> key_normalizer(case_sensitive, SubSeq(line, sp[i][1] + 1, sp[i][2] - 1))]]

\* naive mode, one line: lines 861-874
NaiveLine(d, y, start_l, end_l, x1, x2, case_sensitive) ==
  LET line == TextLine(d, y)
      sp == SelectSeq(FindIter(line),
                      LAMBDA m : ~(y = start_l /\ m[1] < x1) /\ ~(y = end_l /\ m[2] > x2))
  IN  [i \in 1..Len(sp) |->
         [tok |-> TokenRef(sp[i][1], y, sp[i][2], y,
                           SubSeq(line, sp[i][1] + 1, sp[i][2]), "id"),
          key |-> key_normalizer(case_sensitive, SubSeq(line, sp[i][1] + 1, sp[i][2]))]]

\* naive mode: lines 860-874
NaiveScan(d, start_l, end_l, x1, x2, case_sensitive) ==
  Flatten([k \in 1..(end_l - start_l + 1) |->
             NaiveLine(d, start_l + k - 1, start_l, end_l, x1, x2, case_sensitive)])

\* a lexer scan that keeps the tokens the selection cuts on its first and last line
LexerScanUnclipped(tokenlist, start_l, end_l, x1, x2, case_sensitive) ==
  LET kept == SelectSeq(tokenlist, LAMBDA t : StyleValid(t.style))
  IN  [i \in 1..Len(kept) |->
         [tok |-> TokenRef(kept[i].x1, kept[i].y1, kept[i].x2, kept[i].y2,
                           kept[i].str, kept[i].style),
          key |-> key_normalizer(case_sensitive, kept[i].str)]]

\* lexer mode: lines 913-928
LexerScan(tokenlist, start_l, end_l, x1, x2, case_sensitive) ==
  LET kept == SelectSeq(tokenlist,
                LAMBDA t : /\ ~(t.y1 = start_l /\ t.x1 < x1)
                           /\ ~(t.y2 = end_l /\ t.x2 > x2)
                           /\ StyleValid(t.style))
  IN  [i \in 1..Len(kept) |->
         [tok |-> TokenRef(kept[i].x1, kept[i].y1, kept[i].x2, kept[i].y2,
                           kept[i].str, kept[i].style),
          key |-> key_normalizer(case_sensitive, kept[i].str)]]

\* session.dictionary[key].append(token_ref); session.line_index[y].append((token_ref, key))
\* for every found token: the i-th found token gets identity i
BuildIndex(ses, found) ==
  LET n == Len(found)
      keys == {found[i].key : i \in 1..n}
      ys == {found[i].tok.start_y : i \in 1..n}
  IN  [ses EXCEPT
         !.tokens = [i \in 1..n |-> found[i].tok],
         !.dictionary = [k \in keys |-> Indices(n, LAMBDA i : found[i].key = k)],
         !.line_index = [y \in ys |->
                           LET on == Indices(n, LAMBDA i : found[i].tok.start_y = y)
                           IN  [j \in 1..Len(on) |-> <<on[j], found[on[j]].key>>]]]

\* the TokenRef objects still referenced by an index; the others are garbage
Collect(ses) ==
  LET live == UNION {Range(ses.dictionary[k]) : k \in DOMAIN ses.dictionary}
              \cup UNION {{e[1] : e \in Range(ses.line_index[y])} :
                          y \in DOMAIN ses.line_index}
  IN  [ses EXCEPT !.tokens = [i \in DOMAIN ses.tokens \cap live |-> ses.tokens[i]]]

\* a scan without step 4.B: the words that occur once stay in both indexes
KeepSingletons(ses) == Collect(ses)

\* step 4.B, lines 939-956: words with fewer than 2 occurrences leave both indexes
RemoveSingletons(ses) ==
  LET keys_to_remove == {k \in DOMAIN ses.dictionary : Len(ses.dictionary[k]) < 2}
      gone == UNION {Range(ses.dictionary[k]) : k \in keys_to_remove}
      filtered == [y \in DOMAIN ses.line_index |->
                     SelectSeq(ses.line_index[y], LAMBDA e : e[1] \notin gone)]
  IN  Collect([ses EXCEPT
         !.dictionary = [k \in DOMAIN ses.dictionary \ keys_to_remove |->
                           ses.dictionary[k]],
         !.line_index = [y \in {z \in DOMAIN filtered : filtered[z] # <<>>} |->
                           filtered[y]]])

\* a restore_caret that puts the caret back and drops the selection
DropSelection(d, caret, keep_selection) == SetCaretOne(d, caret[1], caret[2], -1, -1)

\* restore_caret of start_sync_edit
restore_caret(d, caret, keep_selection) ==
  IF keep_selection THEN SetCaretOne(d, caret[1], caret[2], caret[3], caret[4])
  ELSE SetCaretOne(d, caret[1], caret[2], -1, -1)

\* Command.start_sync_edit, from "--- 3. Start ---" on (lines 749-1033)
StartScan(w0, h, caret) ==
  LET d0 == w0.docs[h]
      sl == GetSelLines(d0)
      start_l == sl[1]
      end_l == sl[2]
      c == SortedSel(caret)
      x1 == c[1]
      y1 == c[2]
      \* FIX #15: a selection that ends at column 0 ends at the end of the line before
      y2 == IF c[3] = 0 /\ c[4] > y1 THEN c[4] - 1 ELSE c[4]
      x2 == IF c[3] = 0 /\ c[4] > y1 THEN LineLen(d0, c[4] - 1) ELSE c[3]
      ses0 == [w0.sessions[h] EXCEPT !.start_l = start_l, !.end_l = end_l,
                                     !.selected = TRUE, !.use_colors = TRUE,
                                     !.case_sensitive = d0.case_sensitive,
                                     !.dictionary = EmptyFcn, !.line_index = EmptyFcn,
                                     !.tokens = EmptyFcn]
      d1 == SetSelRectNone(d0)
      w1 == msg_status([w0 EXCEPT !.docs[h] = d1, !.sessions[h] = ses0], "Analyzing")
      tokenlist == GetToken(d1, start_l, end_l)
  IN  IF ~ses0.use_simple_naive_mode /\ tokenlist = <<>>
      THEN \* lines 882-895: lexer parsing not finished yet
           LET w2 == msg_status(reset(w1, h, FALSE), "No syntax tokens found")
           IN  [w2 EXCEPT !.docs[h] = restore_caret(@, caret, TRUE)]
      ELSE
        LET found == IF ses0.use_simple_naive_mode
                     THEN NaiveScan(d1, start_l, end_l, x1, x2, ses0.case_sensitive)
                     ELSE LexerScan(tokenlist, start_l, end_l, x1, x2, ses0.case_sensitive)
            ses1 == RemoveSingletons(BuildIndex(ses0, found))
            w2 == [w1 EXCEPT !.sessions[h] = ses1]
        IN  IF DOMAIN ses1.dictionary = {}
            THEN \* lines 965-976
                 LET w3 == msg_status(reset(w2, h, TRUE), "No editable identifiers found")
                 IN  [w3 EXCEPT !.docs[h] = restore_caret(@, caret, TRUE)]
            ELSE \* lines 978-1024
                 LET w3 == msg_status(mark_all_words(w2, h), "Click ID to edit")
                     w4 == [w3 EXCEPT !.active_scroll_handles = @ \cup {h},
                                      !.active_caret_handles = @ \cup {h}]
                 IN  [w4 EXCEPT !.docs[h] = restore_caret(@, caret, FALSE)]

\* Command.start_sync_edit
start_sync_edit(w0, h, allow_timer) ==
  LET w1 == get_session(w0, h)
      w2 == [w1 EXCEPT !.selection_scroll_handles = @ \ {h}]
      w3 == update_gutter_icon_on_selection(w2, h)
      d == w3.docs[h]
      is_naive_lexer == d.lexer = "" \/ d.lexer \in NAIVE_LEXERS
      naive == is_naive_lexer \/ d.use_simple_naive_mode
      w4 == [w3 EXCEPT !.sessions[h].use_simple_naive_mode = naive]
  IN  IF Len(d.carets) # 1
      THEN msg_status(reset(w3, h, TRUE), "Need single caret")
      ELSE IF ~HasTextSel(d)
      THEN msg_status(reset(w3, h, TRUE), "Make selection first")
      ELSE IF ~naive /\ allow_timer
      THEN \* lines 721-747: wait 600 ms for the lexer
           LET w5 == [w4 EXCEPT
                        !.timers = TimerStartOne(TimerStop(@, <<"lexer_timer", h>>),
                                                <<"lexer_timer", h>>),
                        !.pending_delay_handles = @ \cup {h},
                        !.pending_lexer_parse_handles =
                           IF h \notin w4.lexer_parsed_message_shown
                           THEN @ \cup {h} ELSE @]
           IN  msg_status(reset(w5, h, FALSE), "delay start for 600ms")
      ELSE StartScan(w4, h, d.carets[1])

\* Command.toggle (and on_click_gutter on the plugin's icon)
toggle(w0, h) ==
  LET w1 == get_session(w0, h)
  IN  IF w1.sessions[h].selected \/ w1.sessions[h].editing
      THEN reset(w1, h, TRUE)
      ELSE start_sync_edit(w1, h, TRUE)

\* a lexer_timer without the membership test of lines 651-652: every call scans
LexerTimerUnchecked(w0, h) ==
  LET w1 == [w0 EXCEPT !.pending_delay_handles = @ \ {h}]
  IN  IF h \in DOMAIN w1.docs
      THEN start_sync_edit(w1, h, FALSE)
      ELSE w1

\* a lexer_timer without line 654: the handle stays in pending_delay_handles
LexerTimerKeepsPending(w0, h) ==
  IF h \notin w0.pending_delay_handles THEN w0
  ELSE IF h \in DOMAIN w0.docs
       THEN start_sync_edit(w0, h, FALSE)
       ELSE w0

\* Command.lexer_timer, the 600 ms timer's callback
lexer_timer(w0, h) ==
  IF h \notin w0.pending_delay_handles THEN w0
  ELSE LET w1 == [w0 EXCEPT !.pending_delay_handles = @ \ {h}]
       IN  IF h \in DOMAIN w1.docs   \* the editor may have been closed meanwhile
           THEN start_sync_edit(w1, h, FALSE)
           ELSE w1

\* an on_lexer_parsed that runs the scan again instead of advising the user
RescanOnParsed(w0, h) ==
  IF h \notin w0.pending_lexer_parse_handles THEN w0
  ELSE start_sync_edit([w0 EXCEPT !.pending_lexer_parse_handles = @ \ {h}], h, FALSE)

\* an on_lexer_parsed without lines 625-628: the advisory is not remembered
AlwaysAdvise(w0, h) ==
  IF h \notin w0.pending_lexer_parse_handles THEN w0
  ELSE [w0 EXCEPT !.pending_lexer_parse_handles = @ \ {h},
                  !.boxes[h] = @ + 1]

\* Command.on_lexer_parsed
on_lexer_parsed(w0, h) ==
  IF h \notin w0.pending_lexer_parse_handles THEN w0
  ELSE LET w1 == [w0 EXCEPT !.pending_lexer_parse_handles = @ \ {h}]
       IN  IF h \in w1.lexer_parsed_message_shown THEN w1
           ELSE [w1 EXCEPT !.lexer_parsed_message_shown = @ \cup {h},
                           !.boxes[h] = @ + 1]

(***************************************************************************)
(* The token index during editing.                                         *)
(***************************************************************************)
\* `not session.our_key`: None or the empty string
NoKey(k) == k = NoneKey \/ k = <<>>

\* session.dictionary.get(key, []): the bucket of key, as token identities
Bucket(ses, key) == IF key \in DOMAIN ses.dictionary THEN ses.dictionary[key] ELSE <<>>

\* session.dictionary[key] on a defaultdict(list): a missing key is created, empty
Touch(ses, key) ==
  IF key \in DOMAIN ses.dictionary THEN ses
  ELSE [ses EXCEPT !.dictionary = (key :> <<>>) @@ ses.dictionary]

\* token_ref.text == '' or token_ref.start_x == token_ref.end_x
IsEmptyTok(t) == t.text = <<>> \/ t.start_x = t.end_x

\* Command._cleanup_empty_word
_cleanup_empty_word(ses, word_key) ==
  LET tokens_list == Bucket(ses, word_key)
      affected_lines == {ses.tokens[i].start_y : i \in Range(tokens_list)}
      filtered == [y \in DOMAIN ses.line_index |->
                     IF y \in affected_lines
                     THEN SelectSeq(ses.line_index[y], LAMBDA e : e[2] # word_key)
                     ELSE ses.line_index[y]]
  IN  IF NoKey(word_key) \/ tokens_list = <<>> THEN ses
      ELSE IF \A i \in Range(tokens_list) : IsEmptyTok(ses.tokens[i])
      THEN Collect([ses EXCEPT
             !.dictionary = [k \in DOMAIN ses.dictionary \ {word_key} |->
                               ses.dictionary[k]],
             !.line_index = [y \in {z \in DOMAIN filtered : filtered[z] # <<>>} |->
                               filtered[y]]])
      ELSE ses

RECURSIVE BackScan(_, _)
\* while p > 0 and regex.match(line[p:]): p -= 1
BackScan(line, p) == IF p > 0 /\ RegexMatch(line, p) THEN BackScan(line, p - 1) ELSE p

\* the caret-at-end workaround shared by redraw and caret_in_current_token: step back
\* one column when nothing matches at the caret
StepBack(line, p) ==
  IF p > 0 /\ (p >= Len(line) \/ ~RegexMatch(line, p)) THEN p - 1 ELSE p

\* Command.caret_in_current_token
caret_in_current_token(w, h) ==
  LET ses == w.sessions[h]
      d == w.docs[h]
      idx == ses.original_occurrence_index
      tokens_list == Bucket(ses, ses.our_key)
  IN  IF NoKey(ses.our_key) \/ d.carets = <<>> THEN FALSE
      ELSE IF idx = NoneInt \/ tokens_list = <<>> \/ idx >= Len(d.carets)
              \/ idx >= Len(tokens_list) THEN FALSE
      ELSE
        LET x0 == d.carets[idx + 1][1]
            y0 == d.carets[idx + 1][2]
            token_ref == ses.tokens[tokens_list[idx + 1]]
            line_text == TextLine(d, y0)
            back == BackScan(line_text, StepBack(line_text, x0))
            actual_start_x == IF back = 0 THEN 0 ELSE back + 1
            current_word_len == RunEnd(line_text, actual_start_x) - actual_start_x
            delta == current_word_len - Len(token_ref.text)
            tokens_on_line_before ==
              Cardinality({k \in 1..Len(tokens_list) :
                             /\ ses.tokens[tokens_list[k]].start_y = y0
                             /\ ses.tokens[tokens_list[k]].start_x < token_ref.start_x})
            expected_start_x == token_ref.start_x + tokens_on_line_before * delta
        IN  IF y0 # token_ref.start_y THEN FALSE
            ELSE IF IsEmptyTok(token_ref)
            THEN token_ref.start_x <= x0 /\ x0 <= token_ref.start_x + 1
            ELSE IF back = 0 /\ ~RegexMatch(line_text, 0)
            THEN \* lines 1366-1374: the token's text is not empty here
                 FALSE
            ELSE IF ~RegexMatch(line_text, actual_start_x)
            THEN \* lines 1385-1396
                 FALSE
            ELSE IF ~(actual_start_x <= x0 /\ x0 <= actual_start_x + current_word_len)
            THEN FALSE
            ELSE actual_start_x = expected_start_x

(***************************************************************************)
(* The live-edit propagator: Command.redraw.                               *)
(***************************************************************************)
\* lines 2101-2139: the edited token's own new span and text
UpdateToken(t, y_line, new_key, new_length) ==
  IF new_length = 0
  THEN [t EXCEPT !.end_x = t.start_x, !.text = <<>>]
  ELSE LET back == BackScan(y_line, t.start_x)
           search_x == IF back = 0
                       THEN IF ~RegexMatch(y_line, 0) THEN t.start_x ELSE 0
                       ELSE back + 1
       IN  [t EXCEPT !.start_x = search_x, !.end_x = search_x + new_length,
                     !.text = new_key]

\* lines 2144-2153: whether other_ref is pushed by the edit of a token that was at
\* old_token_x with length old_length
ShiftsOther(other_ref, old_token_x, old_length) ==
  other_ref.start_x >= old_token_x + old_length

\* lines 2100-2153, one iteration of `for token_ref in edited_tokens`
UpdateOne(tokens, line_index, d, id, new_key, new_length, old_length) ==
  LET token_ref == tokens[id]
      line_num == token_ref.start_y
      old_token_x == token_ref.start_x
      delta == new_length - old_length
      tokens1 == [tokens EXCEPT
                    ![id] = UpdateToken(token_ref, TextLine(d, line_num),
                                        new_key, new_length)]
      on_line == IF line_num \in DOMAIN line_index
                 THEN {e[1] : e \in Range(line_index[line_num])} ELSE {}
  IN  IF delta # 0
      THEN [i \in DOMAIN tokens1 |->
              IF i \in on_line /\ i # id /\ ShiftsOther(tokens1[i], old_token_x, old_length)
              THEN shift(tokens1[i], delta) ELSE tokens1[i]]
      ELSE tokens1

RECURSIVE UpdateEdited(_, _, _, _, _, _, _)
\* lines 2100-2153: `for token_ref in edited_tokens`, in list order
UpdateEdited(tokens, line_index, d, ids, new_key, new_length, old_length) ==
  IF ids = <<>> THEN tokens
  ELSE UpdateEdited(UpdateOne(tokens, line_index, d, Head(ids),
                              new_key, new_length, old_length),
                    line_index, d, Tail(ids), new_key, new_length, old_length)

\* lines 2187-2204: the bucket moves to new_key, replacing what new_key held, and the
\* entries of the affected lines that carry old_key are relabelled
Rekey(ses, old_key, new_key, edited_tokens, affected_lines) ==
  [ses EXCEPT
     !.dictionary = [k \in (DOMAIN ses.dictionary \cup {new_key}) \ {old_key} |->
                       IF k = new_key THEN edited_tokens ELSE ses.dictionary[k]],
     !.line_index = [y \in DOMAIN ses.line_index |->
                       IF y \in affected_lines
                       THEN [j \in 1..Len(ses.line_index[y]) |->
                               <<ses.line_index[y][j][1],
                                 IF ses.line_index[y][j][2] = old_key THEN new_key
                                 ELSE ses.line_index[y][j][2]>>]
                       ELSE ses.line_index[y]],
     !.our_key = new_key]

\* lines 2012-2067: the word found at the first caret, <<new_key, new_length>>
WordAtFirstCaret(d, case_sensitive) ==
  LET first_y == d.carets[1][2]
      first_y_line == TextLine(d, first_y)
      first_x == IF d.carets[1][1] < 0 THEN 0
                 ELSE IF d.carets[1][1] > Len(first_y_line) THEN Len(first_y_line)
                 ELSE d.carets[1][1]
      back == BackScan(first_y_line, StepBack(first_y_line, first_x))
      start_pos == IF back = 0 THEN 0 ELSE back + 1
  IN  IF ~RegexMatch(first_y_line, start_pos) THEN <<>>
      ELSE key_normalizer(case_sensitive, MatchGroup(first_y_line, start_pos))

\* lines 2207-2249: the borders of the edited word are drawn again
RepaintEdited(w, h, ses2, edited_tokens, new_length) ==
  [w EXCEPT !.sessions[h] = ses2,
            !.docs[h] = IF new_length = 0 THEN DeleteMarkers(@)
                        ELSE AddMarkers(DeleteMarkers(@),
                                        VisibleMarkers(ses2, @, edited_tokens, "border"))]

\* lines 2187-2204: the dictionary is rebuilt only for a new, non-empty word
RekeyIfChanged(ses1, old_key, new_key, edited_tokens) ==
  IF new_key # <<>> /\ old_key # new_key
  THEN Collect(Rekey(ses1, old_key, new_key, edited_tokens,
                     {ses1.tokens[i].start_y : i \in Range(edited_tokens)}))
  ELSE ses1

\* lines 2069-2257 of redraw: new_key is the word found at the first caret
RedrawWord(w, h, new_key) ==
  LET ses == w.sessions[h]
      old_key == ses.our_key
      edited_tokens == Bucket(ses, old_key)
      new_length == Len(new_key)
      old_length == Len(ses.tokens[edited_tokens[1]].text)
  IN  IF new_length - old_length = 0 /\ old_key = new_key THEN w
      ELSE RepaintEdited(w, h,
             RekeyIfChanged(
               [ses EXCEPT !.tokens = UpdateEdited(ses.tokens, ses.line_index, w.docs[h],
                                                   edited_tokens, new_key, new_length,
                                                   old_length)],
               old_key, new_key, edited_tokens),
             edited_tokens, new_length)

\* a redraw that returns right after line 2010, with our_key left unset
ForgetKey(w, h) ==
  IF NoKey(w.sessions[h].our_key) THEN w
  ELSE [w EXCEPT !.sessions[h].our_key = NoneKey]

\* Command.redraw
redraw(w, h) ==
  IF NoKey(w.sessions[h].our_key) THEN w
  ELSE IF w.docs[h].carets = <<>> \/ Bucket(w.sessions[h], w.sessions[h].our_key) = <<>>
  THEN \* lines 2014 and 2071-2072: returns with our_key left unset
       [w EXCEPT !.sessions[h].our_key = NoneKey]
  ELSE RedrawWord(w, h, WordAtFirstCaret(w.docs[h], w.sessions[h].case_sensitive))

(***************************************************************************)
(* The Selection <-> Editing state machine.                                *)
(***************************************************************************)
\* the rejected "method1" of finish_editing: always the first caret
FirstCaret(d, idx) ==
  IF d.carets # <<>> /\ idx # NoneInt
  THEN SetCaretOne(d, d.carets[1][1], d.carets[1][2], -1, -1)
  ELSE d

\* lines 1246-1284 of finish_editing: one caret, where the caret of the clicked
\* occurrence is now
CollapseCarets(d, idx) ==
  IF d.carets # <<>> /\ idx # NoneInt
  THEN IF idx < Len(d.carets)
       THEN SetCaretOne(d, d.carets[idx + 1][1], d.carets[idx + 1][2], -1, -1)
       ELSE SetCaretOne(d, d.carets[1][1], d.carets[1][2], -1, -1)
  ELSE d

\* lines 1297-1299 of finish_editing
Colorize(w, h, colorize) == IF colorize THEN mark_all_words(w, h) ELSE w

\* lines 1177-1299 of finish_editing, after the final redraw
LeaveEditing(w1, h, colorize) ==
  Colorize(
    [w1 EXCEPT
       !.sessions[h] = [_cleanup_empty_word(@, @.our_key) EXCEPT
                          !.selected = TRUE, !.editing = FALSE,
                          !.our_key = NoneKey, !.original = NonePos,
                          !.original_occurrence_index = NoneInt,
                          !.cached_carets_count = NoneInt,
                          !.cached_carets_lines = NoneList],
       !.docs[h] = CollapseCarets(DeleteMarkers(@),
                                  w1.sessions[h].original_occurrence_index)],
    h, colorize)

\* Command.finish_editing
finish_editing(w0, h, colorize) ==
  IF ~w0.sessions[h].editing THEN w0
  ELSE LeaveEditing(IF caret_in_current_token(w0, h) THEN redraw(w0, h) ELSE w0,
                    h, colorize)

\* Command._validate_carets_integrity: <<the session with its cache built, the verdict>>
_validate_carets_integrity(ses, d) ==
  LET tokens == Bucket(ses, ses.our_key)
      cached == IF ses.cached_carets_lines = NoneList
                THEN [ses EXCEPT
                        !.cached_carets_count = Len(tokens),
                        !.cached_carets_lines =
                           [i \in 1..Len(tokens) |-> ses.tokens[tokens[i]].start_y]]
                ELSE ses
  IN  IF ~ses.editing \/ NoKey(ses.our_key) THEN <<ses, TRUE>>
      ELSE IF ses.cached_carets_lines = NoneList /\ tokens = <<>> THEN <<ses, FALSE>>
      ELSE IF d.carets = <<>> THEN <<cached, FALSE>>
      ELSE IF Len(d.carets) # cached.cached_carets_count THEN <<cached, FALSE>>
      ELSE <<cached, \A i \in 1..Len(d.carets) :
                        d.carets[i][2] = cached.cached_carets_lines[i]>>

\* lines 1523-1531 of on_click: the first entry of the clicked line whose span holds
\* the click, as <<key, offset>>; <<>> when there is none
ClickedEntry(ses, clicked_x, clicked_y) ==
  IF clicked_y \notin DOMAIN ses.line_index THEN <<>>
  ELSE LET li == ses.line_index[clicked_y]
           hits == {j \in 1..Len(li) : /\ clicked_x >= ses.tokens[li[j][1]].start_x
                                       /\ clicked_x <= ses.tokens[li[j][1]].end_x}
       IN  IF hits = {} THEN <<>>
           ELSE LET j == CHOOSE m \in hits : \A n \in hits : m <= n
                IN  <<li[j][2], clicked_x - ses.tokens[li[j][1]].start_x>>

\* lines 1661-1664 of on_click: the index in the bucket of the first token that holds
\* the click; the recorded index is kept when there is none
OccurrenceIndex(ses, bucket, clicked_x, clicked_y) ==
  LET hits == {i \in 1..Len(bucket) :
                 /\ ses.tokens[bucket[i]].start_y = clicked_y
                 /\ ses.tokens[bucket[i]].start_x <= clicked_x
                 /\ clicked_x <= ses.tokens[bucket[i]].end_x}
  IN  IF hits = {} THEN ses.original_occurrence_index
      ELSE (CHOOSE m \in hits : \A n \in hits : m <= n) - 1

RECURSIVE AddCarets(_, _)
\* ed.set_caret(x + off, y, id=CARET_ADD) for each <<y, x, off>> of all_carets
AddCarets(d, all_carets) ==
  IF all_carets = <<>> THEN d
  ELSE AddCarets(AddCaret(d, Head(all_carets)[2] + Head(all_carets)[3],
                          Head(all_carets)[1]),
                 Tail(all_carets))

\* an on_click that starts editing without leaving the selected flag
EditWordSelected(w, h, clicked_key, offset, clicked_x, clicked_y) ==
  LET ses2 == w.sessions[h]
      bucket == ses2.dictionary[clicked_key]
      all_carets == SortYX([k \in 1..Len(bucket) |->
                              <<ses2.tokens[bucket[k]].start_y,
                                ses2.tokens[bucket[k]].start_x, offset>>])
  IN  [w EXCEPT
         !.sessions[h] =
            [ses2 EXCEPT
               !.editing = TRUE, !.our_key = clicked_key,
               !.original = <<clicked_x, clicked_y>>,
               !.original_occurrence_index =
                  OccurrenceIndex(ses2, bucket, clicked_x, clicked_y),
               !.cached_carets_count = NoneInt, !.cached_carets_lines = NoneList],
         !.docs[h] = AddCarets(AddMarkers(@, VisibleMarkers(ses2, @, bucket, "border")),
                               all_carets)]

\* lines 1590-1668 of on_click: carets and borders on every occurrence of clicked_key
EditWord(w, h, clicked_key, offset, clicked_x, clicked_y) ==
  LET ses2 == w.sessions[h]
      bucket == ses2.dictionary[clicked_key]
      all_carets == SortYX([k \in 1..Len(bucket) |->
                              <<ses2.tokens[bucket[k]].start_y,
                                ses2.tokens[bucket[k]].start_x, offset>>])
  IN  [w EXCEPT
         !.sessions[h] =
            [ses2 EXCEPT
               !.selected = FALSE, !.editing = TRUE, !.our_key = clicked_key,
               !.original = <<clicked_x, clicked_y>>,
               !.original_occurrence_index =
                  OccurrenceIndex(ses2, bucket, clicked_x, clicked_y),
               !.cached_carets_count = NoneInt, !.cached_carets_lines = NoneList],
         !.docs[h] = AddCarets(AddMarkers(@, VisibleMarkers(ses2, @, bucket, "border")),
                               all_carets)]

\* lines 1556-1668 of on_click: a click on the valid ID clicked_key.  On an ID to ID
\* switch the previous word is cleaned up if it was deleted, and the carets collapse
\* to the click; session.dictionary[clicked_key] creates a missing bucket
StartEditing(w, h, clicked_key, offset, clicked_x, clicked_y) ==
  EditWord(
    [w EXCEPT
       !.sessions[h] = Touch(IF @.editing THEN _cleanup_empty_word(@, @.our_key) ELSE @,
                             clicked_key),
       !.docs[h] = IF w.sessions[h].editing
                   THEN SetCaretOne(DeleteMarkers(@), clicked_x, clicked_y, -1, -1)
                   ELSE DeleteMarkers(@)],
    h, clicked_key, offset, clicked_x, clicked_y)

\* lines 1533-1668 of on_click: hit is the entry found under the click
ClickOn(w, h, hit, clicked_x, clicked_y) ==
  IF hit = <<>> \/ NoKey(hit[1])
  THEN IF w.sessions[h].editing THEN finish_editing(w, h, TRUE)
       ELSE msg_status(w, "Not an ID")
  ELSE StartEditing(w, h, hit[1], hit[2], clicked_x, clicked_y)

\* an on_click that reports a click in a document without session
ClickReported(w, h) ==
  IF ~has_session(w, h) THEN msg_status(w, "Not an ID")
  ELSE IF ~w.sessions[h].selected /\ ~w.sessions[h].editing THEN w
  ELSE IF w.docs[h].carets = <<>> THEN w
  ELSE ClickOn(w, h,
               ClickedEntry(w.sessions[h], w.docs[h].carets[1][1], w.docs[h].carets[1][2]),
               w.docs[h].carets[1][1], w.docs[h].carets[1][2])

\* Command.on_click
on_click(w, h) ==
  IF ~has_session(w, h) THEN w
  ELSE IF ~w.sessions[h].selected /\ ~w.sessions[h].editing THEN w
  ELSE IF w.docs[h].carets = <<>> THEN w
  ELSE ClickOn(w, h,
               ClickedEntry(w.sessions[h], w.docs[h].carets[1][1], w.docs[h].carets[1][2]),
               w.docs[h].carets[1][1], w.docs[h].carets[1][2])

\* lines 1741-1765 of on_caret: w1 holds the caret cache
CaretMoved(w1, h) ==
  IF ~caret_in_current_token(w1, h) THEN finish_editing(w1, h, TRUE)
  ELSE redraw(w1, h)

\* lines 1728-1765 of on_caret: v is the outcome of the integrity check
CaretChecked(w, h, v) ==
  IF ~v[2]
  THEN finish_editing(msg_status([w EXCEPT !.sessions[h] = v[1]],
                                 "Carets removed or moved"), h, TRUE)
  ELSE CaretMoved([w EXCEPT !.sessions[h] = v[1]], h)

\* an on_caret that does not ask for the state of the mouse buttons
CaretAnyButton(w, h, mouse) ==
  IF ~has_session(w, h) THEN w
  ELSE IF ~w.sessions[h].editing THEN w
  ELSE CaretChecked(w, h, _validate_carets_integrity(w.sessions[h], w.docs[h]))

\* Command.on_caret; mouse: a mouse button is pressed (PROC_GET_KEYSTATE)
on_caret(w, h, mouse) ==
  IF ~has_session(w, h) THEN w
  ELSE IF ~w.sessions[h].editing THEN w
  ELSE IF mouse THEN w
  ELSE CaretChecked(w, h, _validate_carets_integrity(w.sessions[h], w.docs[h]))

\* an on_key without the branch of lines 1966-1971: Up, Down and Enter pass
PassKey(w, h, key) ==
  IF ~has_session(w, h) THEN <<w, TRUE>>
  ELSE IF key = "Esc" THEN <<reset(w, h, TRUE), FALSE>>
  ELSE <<w, TRUE>>

\* Command.on_key: <<the state after the handler, whether the key is passed on to the
\* editor>>; the handler returns False to block the key
on_key(w, h, key) ==
  IF ~has_session(w, h) THEN <<w, TRUE>>
  ELSE IF key = "Esc" THEN <<reset(w, h, TRUE), FALSE>>
  ELSE IF ~w.sessions[h].editing THEN <<w, TRUE>>
  ELSE IF key \in {"Up", "Down", "Enter"}
       THEN <<msg_status(w, "Up/Down/Enter keys are not allowed"), FALSE>>
       ELSE <<w, TRUE>>

(***************************************************************************)
(* Close, reload and scrolling.                                            *)
(***************************************************************************)
\* Command.on_close (the icon bookkeeping is not modelled)
on_close(w, h) == reset(w, h, TRUE)

\* Command.on_open_reopen
on_open_reopen(w, h) ==
  IF has_session(w, h)
  THEN reset([w EXCEPT !.lexer_parsed_message_shown = @ \ {h}], h, TRUE)
  ELSE w

\* an on_scroll without the TIMER_STOP of line 1846
ScrollNoStop(w, h) ==
  IF h \in w.selection_scroll_handles THEN update_gutter_icon_on_selection(w, h)
  ELSE IF ~has_session(w, h) THEN w
  ELSE IF ~(w.sessions[h].selected \/ w.sessions[h].editing) THEN w
  ELSE [w EXCEPT !.timers = TimerStartOne(@, <<"scroll_timer", h>>)]

\* Command.on_scroll
on_scroll(w, h) ==
  IF h \in w.selection_scroll_handles THEN update_gutter_icon_on_selection(w, h)
  ELSE IF ~has_session(w, h) THEN w
  ELSE IF ~(w.sessions[h].selected \/ w.sessions[h].editing) THEN w
  ELSE [w EXCEPT !.timers = TimerStartOne(TimerStop(@, <<"scroll_timer", h>>),
                                          <<"scroll_timer", h>>)]

\* Command._update_edit_markers; session.dictionary[session.our_key] creates a
\* missing bucket
_update_edit_markers(w, h) ==
  IF NoKey(w.sessions[h].our_key) THEN w
  ELSE [w EXCEPT
          !.sessions[h] = Touch(@, @.our_key),
          !.docs[h] = AddMarkers(DeleteMarkers(@),
                        VisibleMarkers(w.sessions[h], @,
                                       Bucket(w.sessions[h], w.sessions[h].our_key),
                                       "border"))]

\* Command._on_scroll_timer_finished (the icon is not modelled)
_on_scroll_timer_finished(w, h) ==
  IF ~has_session(w, h) THEN w
  ELSE IF w.sessions[h].editing THEN _update_edit_markers(w, h)
  ELSE IF w.sessions[h].selected THEN mark_all_words(w, h)
  ELSE w

\* the editor scrolls: lines top..bottom are visible
HostScroll(d, top, bottom) == [d EXCEPT !.top = top, !.bottom = bottom]

(***************************************************************************)
(* What the host editor does with a key press at every caret.              *)
(***************************************************************************)
InsertAt(line, x, ch) == SubSeq(line, 1, x) \o <<ch>> \o SubSeq(line, x + 1, Len(line))

DeleteAt(line, x) == SubSeq(line, 1, x) \o SubSeq(line, x + 2, Len(line))

\* the number of carets before the i-th on its line
CaretsBefore(cs, i) == Cardinality({j \in 1..(i - 1) : cs[j][2] = cs[i][2]})

RECURSIVE TypeAt(_, _, _, _)
\* a character typed at the carets i..Len(cs), each already pushed right by the
\* characters typed at the carets before it on its line
TypeAt(lines, cs, i, ch) ==
  IF i > Len(cs) THEN lines
  ELSE TypeAt([lines EXCEPT ![cs[i][2] + 1] = InsertAt(@, cs[i][1] + CaretsBefore(cs, i), ch)],
              cs, i + 1, ch)

HostType(d, ch) ==
  [d EXCEPT !.lines = TypeAt(d.lines, d.carets, 1, ch),
            !.carets = [i \in 1..Len(d.carets) |->
                          <<d.carets[i][1] + CaretsBefore(d.carets, i) + 1,
                            d.carets[i][2], -1, -1>>]]

RECURSIVE DeleteAtCarets(_, _, _, _)
\* the character at column (caret - back) deleted at the carets i..Len(cs)
DeleteAtCarets(lines, cs, i, back) ==
  IF i > Len(cs) THEN lines
  ELSE DeleteAtCarets(
         [lines EXCEPT ![cs[i][2] + 1] = DeleteAt(@, cs[i][1] - CaretsBefore(cs, i) - back)],
         cs, i + 1, back)

\* Backspace: the character before each caret goes
HostBackspace(d) ==
  [d EXCEPT !.lines = DeleteAtCarets(d.lines, d.carets, 1, 1),
            !.carets = NormCarets([i \in 1..Len(d.carets) |->
                          <<d.carets[i][1] - CaretsBefore(d.carets, i) - 1,
                            d.carets[i][2], -1, -1>>])]

\* Delete: the character at each caret goes
HostDelete(d) ==
  [d EXCEPT !.lines = DeleteAtCarets(d.lines, d.carets, 1, 0),
            !.carets = NormCarets([i \in 1..Len(d.carets) |->
                          <<d.carets[i][1] - CaretsBefore(d.carets, i),
                            d.carets[i][2], -1, -1>>])]

\* Left / Right: every caret moves one column and wraps at the ends of its line
MoveCaret(d, c, dx) ==
  LET nx == c[1] + dx
  IN  IF nx < 0
      THEN IF c[2] > 0 THEN <<LineLen(d, c[2] - 1), c[2] - 1, -1, -1>>
           ELSE <<0, c[2], -1, -1>>
      ELSE IF nx > LineLen(d, c[2])
      THEN IF c[2] < Len(d.lines) - 1 THEN <<0, c[2] + 1, -1, -1>>
           ELSE <<c[1], c[2], -1, -1>>
      ELSE <<nx, c[2], -1, -1>>

HostMove(d, dx) ==
  [d EXCEPT !.carets = NormCarets([i \in 1..Len(d.carets) |-> MoveCaret(d, d.carets[i], dx)])]

\* a mouse click: one caret at the clicked position
HostClick(d, x, y) == SetCaretOne(d, x, y, -1, -1)

\* the whole text selected, from its start to its end
SelectAll(d) == SetCaretOne(d, 0, 0, Len(d.lines[Len(d.lines)]), Len(d.lines) - 1)

(***************************************************************************)
(* Initial documents.                                                      *)
(***************************************************************************)
TypedChars == {"b"}

\* first and second lines of the initial two-line texts: a word twice on a line
\* with another word after it, a word at column 1 behind a blank, a lone word
FirstLines == {<<"a", " ", "a", " ", "a", "b">>, <<" ", "a", " ", "a", "b">>, <<"a">>}
SecondLines == {<<"a", " ", "a", "b">>, <<"a", "b">>}

InitTexts == {<<l1, l2>> : l1 \in FirstLines, l2 \in SecondLines}

\* texts opened with a lexer: one with a repeated identifier and a repeated keyword,
\* one whose only words are an identifier and a keyword that occur once
LexerTexts == {<<<<"a", " ", "a", " ", "a", "b">>, <<"a", " ", "a", "b">>>>,
               <<<<"a">>, <<"a", "b">>>>}

NewDoc(lines, lexer, parsed) ==
  [lines |-> lines, carets |-> <<<<0, 0, -1, -1>>>>, markers |-> <<>>,
   lexer |-> lexer, parsed |-> parsed, top |-> 0, bottom |-> Len(lines) - 1,
   case_sensitive |-> TRUE, use_simple_naive_mode |-> FALSE]

InitDocs ==
  {NewDoc(t, "", TRUE) : t \in InitTexts}
    \cup {NewDoc(t, "Python", parsed) : t \in LexerTexts, parsed \in BOOLEAN}
    \cup {NewDoc(t, "Markdown", TRUE) : t \in LexerTexts}

Init ==
  /\ \E d \in InitDocs : \E sel \in BOOLEAN :
        docs = (H :> IF sel THEN SelectAll(d) ELSE d)
  /\ sessions = EmptyFcn
  /\ pending_delay_handles = {}
  /\ pending_lexer_parse_handles = {}
  /\ active_scroll_handles = {}
  /\ active_caret_handles = {}
  /\ lexer_parsed_message_shown = {}
  /\ selection_scroll_handles = {}
  /\ timers = EmptyFcn
  /\ status = ""
  /\ boxes = [h \in Handles |-> 0]
  /\ last = [h |-> H, ev |-> "init", arg |-> "", ret |-> TRUE]
  /\ nkeys = 0

(***************************************************************************)
(* Events.                                                                 *)
(***************************************************************************)
\* the state an event handler starts from: no message shown by it yet
Before == [World EXCEPT !.status = ""]

Active(w, h) == has_session(w, h) /\ (w.sessions[h].selected \/ w.sessions[h].editing)

Editing(w, h) == has_session(w, h) /\ w.sessions[h].editing

Event(h, ev, arg, ret) == last' = [h |-> h, ev |-> ev, arg |-> arg, ret |-> ret]

\* every caret stands inside its line
CaretsInText(d) ==
  \A i \in 1..Len(d.carets) :
     /\ d.carets[i][2] < Len(d.lines)
     /\ d.carets[i][1] <= LineLen(d, d.carets[i][2])

\* the editor's own effect of a key that reaches it
HostKey(d, key) ==
  CASE key = "Backspace" -> HostBackspace(d)
    [] key = "Delete" -> HostDelete(d)
    [] key = "Left" -> HostMove(d, -1)
    [] key = "Right" -> HostMove(d, 1)
    [] OTHER -> HostType(d, key)

\* the keys whose effect stays inside the lines: no caret beyond its line's end,
\* no Backspace at a line's start and no Delete at its end (these join lines)
HostKeyDefined(d, key) ==
  /\ CaretsInText(d)
  /\ key = "Backspace" => \A i \in 1..Len(d.carets) : d.carets[i][1] > 0
  /\ key = "Delete" => \A i \in 1..Len(d.carets) :
                          d.carets[i][1] < LineLen(d, d.carets[i][2])

\* the user selects the whole text: on_caret_slow
OnSelect(w, h) ==
  IF has_session(w, h) THEN [w EXCEPT !.docs[h] = SelectAll(@)]
  ELSE update_gutter_icon_on_selection([w EXCEPT !.docs[h] = SelectAll(@)], h)

\* a mouse click at column x of line y: on_caret with the button down, then on_click
OnClick(w, h, x, y) ==
  on_click(on_caret([w EXCEPT !.docs[h] = HostClick(@, x, y)], h, TRUE), h)

\* r is on_key's <<state, passed>>: a key that is passed on acts in the editor, which
\* then sends on_caret
KeyPassed(r, h, key) ==
  <<IF r[2] THEN on_caret([r[1] EXCEPT !.docs[h] = HostKey(@, key)], h, FALSE) ELSE r[1],
    r[2]>>

\* a key press: <<the state after it, whether on_key passed it on>>
OnKey(w, h, key) == KeyPassed(on_key(w, h, key), h, key)

Select(h) ==
  /\ ~Active(World, h)
  /\ Set(OnSelect(Before, h))
  /\ Event(h, "select", "", TRUE)
  /\ UNCHANGED nkeys

\* the start command or a click on the gutter icon
Toggle(h) ==
  /\ Set(toggle(Before, h))
  /\ Event(h, "toggle", "", TRUE)
  /\ UNCHANGED nkeys

\* the 600 ms timer fires
LexerTimer(h) ==
  /\ <<"lexer_timer", h>> \in DOMAIN timers
  /\ Set(lexer_timer([Before EXCEPT !.timers = TimerFired(@, <<"lexer_timer", h>>)], h))
  /\ Event(h, "lexer_timer", "", TRUE)
  /\ UNCHANGED nkeys

\* the host's lexer finishes parsing and notifies the plugin
LexerParsed(h) ==
  /\ docs[h].lexer # ""
  /\ Set(on_lexer_parsed([Before EXCEPT !.docs[h].parsed = TRUE], h))
  /\ Event(h, "lexer_parsed", "", TRUE)
  /\ UNCHANGED nkeys

Click(h, x, y) ==
  /\ Active(World, h)
  /\ Set(OnClick(Before, h, x, y))
  /\ Event(h, "click", <<x, y>>, TRUE)
  /\ UNCHANGED nkeys

\* a key press while editing that the editor acts on if on_key passes it on
Key(h, key) ==
  /\ Editing(World, h)
  /\ nkeys < MaxKeys
  /\ HostKeyDefined(docs[h], key)
  /\ \E r \in {OnKey(Before, h, key)} : Set(r[1]) /\ Event(h, "key", key, r[2])
  /\ nkeys' = nkeys + 1

KeyChar(h, ch) == Key(h, ch)

KeyBackspace(h) == Key(h, "Backspace")

KeyDelete(h) == Key(h, "Delete")

KeyLeft(h) == Key(h, "Left")

KeyRight(h) == Key(h, "Right")

\* Up, Down or Enter while editing.  Only on_key's part is modelled, not the editor's
\* own effect of these keys; last.ret tells whether on_key blocked the key
KeyBlocked(h, key) ==
  /\ Editing(World, h)
  /\ \E r \in {on_key(Before, h, key)} : Set(r[1]) /\ Event(h, "key", key, r[2])
  /\ UNCHANGED nkeys

KeyEsc(h) ==
  /\ has_session(World, h)
  /\ \E r \in {on_key(Before, h, "Esc")} : Set(r[1]) /\ Event(h, "key", "Esc", r[2])
  /\ UNCHANGED nkeys

\* Esc in a document without session: on_key returns at once and the editor has
\* nothing to do with the key
KeyEscIdle(h) ==
  /\ ~has_session(World, h)
  /\ \E r \in {on_key(Before, h, "Esc")} : Set(r[1]) /\ Event(h, "key", "Esc", r[2])
  /\ UNCHANGED nkeys

Next ==
  \/ \E h \in DOMAIN docs : Select(h)
  \/ \E h \in DOMAIN docs : Toggle(h)
  \/ \E h \in DOMAIN docs : LexerTimer(h)
  \/ \E h \in DOMAIN docs : LexerParsed(h)
  \/ \E h \in DOMAIN docs : \E y \in 0..(Len(docs[h].lines) - 1) :
        \E x \in 0..Len(docs[h].lines[y + 1]) : Click(h, x, y)
  \/ \E h \in DOMAIN docs : \E ch \in TypedChars : KeyChar(h, ch)
  \/ \E h \in DOMAIN docs : KeyBackspace(h)
  \/ \E h \in DOMAIN docs : KeyDelete(h)
  \/ \E h \in DOMAIN docs : KeyLeft(h)
  \/ \E h \in DOMAIN docs : KeyRight(h)
  \/ \E h \in DOMAIN docs : \E key \in {"Up", "Down", "Enter"} : KeyBlocked(h, key)
  \/ \E h \in DOMAIN docs : KeyEsc(h)

Spec == Init /\ [][Next]_vars

(***************************************************************************)
(* Two documents, with close, reload and scrolling.                        *)
(***************************************************************************)
\* the text of both documents: a word twice on the first line, another word once on
\* the second
DocsText == <<<<"a", " ", "a">>, <<"b">>>>

\* a document without lexer, or one whose lexer has not finished parsing
TwoDocs == {NewDoc(DocsText, "", TRUE), NewDoc(DocsText, "Python", FALSE)}

InitTwo ==
  /\ \E d1 \in TwoDocs : \E d2 \in TwoDocs :
        docs = (1 :> SelectAll(d1)) @@ (2 :> SelectAll(d2))
  /\ sessions = EmptyFcn
  /\ pending_delay_handles = {}
  /\ pending_lexer_parse_handles = {}
  /\ active_scroll_handles = {}
  /\ active_caret_handles = {}
  /\ lexer_parsed_message_shown = {}
  /\ selection_scroll_handles = {}
  /\ timers = EmptyFcn
  /\ status = ""
  /\ boxes = [h \in Handles |-> 0]
  /\ last = [h |-> H, ev |-> "init", arg |-> "", ret |-> TRUE]
  /\ nkeys = 0

\* the line ranges the editor shows: all lines, or the last line only
Viewports(d) == {<<0, Len(d.lines) - 1>>, <<Len(d.lines) - 1, Len(d.lines) - 1>>}

\* the document is closed: on_close, then its editor is gone
Close(h) ==
  /\ Set([on_close(Before, h) EXCEPT !.docs = [k \in DOMAIN @ \ {h} |-> @[k]]])
  /\ Event(h, "close", "", TRUE)
  /\ UNCHANGED nkeys

\* the document is reloaded from disk
Reopen(h) ==
  /\ Set([on_open_reopen(Before, h) EXCEPT !.boxes[h] = 0])
  /\ Event(h, "reopen", "", TRUE)
  /\ UNCHANGED nkeys

\* the editor scrolls to the lines top..bottom and sends on_scroll
Scroll(h, top, bottom) ==
  /\ <<top, bottom>> # <<docs[h].top, docs[h].bottom>>
  /\ Set(on_scroll([Before EXCEPT !.docs[h] = HostScroll(@, top, bottom)], h))
  /\ Event(h, "scroll", <<top, bottom>>, TRUE)
  /\ UNCHANGED nkeys

\* the 150 ms scroll timer of handle h fires; its document may be closed by then
ScrollTimer(h) ==
  /\ <<"scroll_timer", h>> \in DOMAIN timers
  /\ Set(_on_scroll_timer_finished(
           [Before EXCEPT !.timers = TimerFired(@, <<"scroll_timer", h>>)], h))
  /\ Event(h, "scroll_timer", "", TRUE)
  /\ UNCHANGED nkeys

\* Document H receives every event; the other document receives the start command,
\* the timer and parser notifications, a click on its first word, Esc and close.
NextTwo ==
  \/ \E h \in DOMAIN docs \cap {H} : Select(h)
  \/ \E h \in DOMAIN docs : Toggle(h)
  \/ \E h \in DOMAIN docs : LexerTimer(h)
  \/ \E h \in DOMAIN docs : LexerParsed(h)
  \/ \E h \in DOMAIN docs : \E y \in 0..(Len(docs[h].lines) - 1) :
        \E x \in 0..Len(docs[h].lines[y + 1]) :
           (h = H \/ <<x, y>> = <<0, 0>>) /\ Click(h, x, y)
  \/ \E h \in DOMAIN docs \cap {H} : \E ch \in TypedChars :
        nkeys < MaxDocKeys /\ KeyChar(h, ch)
  \/ \E h \in DOMAIN docs \cap {H} : nkeys < MaxDocKeys /\ KeyRight(h)
  \/ \E h \in DOMAIN docs \cap {H} : KeyBlocked(h, "Enter")
  \/ \E h \in DOMAIN docs : KeyEsc(h)
  \/ \E h \in DOMAIN docs \cap {H} : KeyEscIdle(h)
  \/ \E h \in DOMAIN docs : Close(h)
  \/ \E h \in DOMAIN docs \cap {H} : Reopen(h)
  \/ \E h \in DOMAIN docs \cap {H} : \E v \in Viewports(docs[h]) : Scroll(h, v[1], v[2])
  \/ \E h \in Handles : ScrollTimer(h)

SpecTwo == InitTwo /\ [][NextTwo]_vars

(***************************************************************************)
(* Properties.                                                             *)
(***************************************************************************)
\* the places <<key, i>> of the dictionary that hold token id
DictPlaces(ses, id) ==
  {p \in UNION {{<<k, i>> : i \in 1..Len(ses.dictionary[k])} : k \in DOMAIN ses.dictionary} :
     ses.dictionary[p[1]][p[2]] = id}

\* the places <<line, j>> of line_index that hold token id
LinePlaces(ses, id) ==
  {p \in UNION {{<<y, j>> : j \in 1..Len(ses.line_index[y])} : y \in DOMAIN ses.line_index} :
     ses.line_index[p[1]][p[2]][1] = id}

\* the tokens an index refers to
Referenced(ses) ==
  UNION {Range(ses.dictionary[k]) : k \in DOMAIN ses.dictionary}
    \cup UNION {{e[1] : e \in Range(ses.line_index[y])} : y \in DOMAIN ses.line_index}

\* C1: in every state of a session every token is in exactly one dictionary bucket
\* and in exactly one line_index entry, and that entry carries the bucket's key
C1_OneBucketOneEntry ==
  \A h \in DOMAIN sessions :
    \A id \in Referenced(sessions[h]) :
      /\ Cardinality(DictPlaces(sessions[h], id)) = 1
      /\ Cardinality(LinePlaces(sessions[h], id)) = 1
      /\ \A dp \in DictPlaces(sessions[h], id) : \A lp \in LinePlaces(sessions[h], id) :
            sessions[h].line_index[lp[1]][lp[2]][2] = dp[1]

\* C5: between events every key of the dictionary maps to at least 2 tokens
C5_BucketsHoldTwo ==
  \A h \in DOMAIN sessions :
    \A k \in DOMAIN sessions[h].dictionary : Len(sessions[h].dictionary[k]) >= 2

\* the columns of line where k stands as a whole word
Occurrences(line, k) ==
  {x \in 0..(Len(line) - Len(k)) :
     /\ SubSeq(line, x + 1, x + Len(k)) = k
     /\ (x = 0 \/ line[x] \notin WordChars)
     /\ (x + Len(k) = Len(line) \/ line[x + Len(k) + 1] \notin WordChars)}

\* how often k stands as a whole word in the text
Count(lines, k) ==
  Cardinality(UNION {{<<y, x>> : x \in Occurrences(lines[y], k)} : y \in 1..Len(lines)})

\* the words of the text
Words(lines) ==
  UNION {{SubSeq(lines[y], m[1] + 1, m[2]) : m \in Range(FindIter(lines[y]))} :
         y \in 1..Len(lines)}

\* a scan has just succeeded for h
AfterScan(h) ==
  /\ h \in DOMAIN sessions
  /\ last.ev \in {"toggle", "lexer_timer"}
  /\ status = "Click ID to edit"

\* C6: right after a successful scan no word with fewer than 2 occurrences is a key
\* of the dictionary, no line_index entry refers to a token of such a word, and no
\* line of line_index has an empty list
C6_SingletonsPruned ==
  \A h \in DOMAIN sessions :
    AfterScan(h) =>
      /\ \A k \in DOMAIN sessions[h].dictionary :
            /\ Count(docs[h].lines, k) >= 2
            /\ Len(sessions[h].dictionary[k]) >= 2
      /\ \A y \in DOMAIN sessions[h].line_index :
            /\ sessions[h].line_index[y] # <<>>
            /\ \A j \in 1..Len(sessions[h].line_index[y]) :
                  /\ Count(docs[h].lines, sessions[h].line_index[y][j][2]) >= 2
                  /\ Count(docs[h].lines,
                           sessions[h].tokens[sessions[h].line_index[y][j][1]].text) >= 2

\* a scan succeeded on a text that holds a word occurring once
C6_Witness ==
  /\ AfterScan(H)
  /\ \E k \in Words(docs[H].lines) : Count(docs[H].lines, k) = 1
  /\ DOMAIN sessions[H].dictionary # {}

\* redraw finds the active word unchanged under the first caret (lines 2008-2091)
WordUnchanged(w, h) ==
  /\ Editing(w, h)
  /\ ~NoKey(w.sessions[h].our_key)
  /\ w.docs[h].carets # <<>>
  /\ Bucket(w.sessions[h], w.sessions[h].our_key) # <<>>
  /\ WordAtFirstCaret(w.docs[h], w.sessions[h].case_sensitive) = w.sessions[h].our_key
  /\ Len(WordAtFirstCaret(w.docs[h], w.sessions[h].case_sensitive))
       = Len(w.sessions[h].tokens[Bucket(w.sessions[h], w.sessions[h].our_key)[1]].text)

\* the state with every caret moved by dx columns
Moved(w, h, dx) == IF dx = 0 THEN w ELSE [w EXCEPT !.docs[h] = HostMove(@, dx)]

\* C7: redraw in Editing, when the word under the caret is the active key with the
\* recorded length, changes nothing, however often it is called
C7_RedrawIdempotent ==
  \A h \in DOMAIN sessions : \A dx \in {-1, 0, 1} :
    WordUnchanged(Moved(World, h, dx), h) =>
      /\ redraw(Moved(World, h, dx), h) = Moved(World, h, dx)
      /\ redraw(redraw(Moved(World, h, dx), h), h) = redraw(Moved(World, h, dx), h)

\* a Left or Right key kept the caret in the word, so on_caret ran redraw
C7_Witness ==
  /\ last.ev = "key" /\ last.arg \in {"Left", "Right"}
  /\ WordUnchanged(World, H)

\* C9: Up, Down or Enter while editing is blocked and changes nothing but the status
\* message; the session stays in Editing
C9_KeysBlocked ==
  [][(/\ last'.ev = "key" /\ last'.arg \in {"Up", "Down", "Enter"}
      /\ Editing(World, H))
     => /\ last'.ret = FALSE
        /\ docs' = docs
        /\ sessions' = sessions
        /\ pending_delay_handles' = pending_delay_handles
        /\ pending_lexer_parse_handles' = pending_lexer_parse_handles
        /\ active_scroll_handles' = active_scroll_handles
        /\ active_caret_handles' = active_caret_handles
        /\ selection_scroll_handles' = selection_scroll_handles
        /\ timers' = timers
        /\ status' # ""
        /\ sessions'[H].editing]_vars

\* Enter was pressed while editing
C9_Witness ==
  /\ last.ev = "key" /\ last.arg = "Enter"
  /\ status = "Up/Down/Enter keys are not allowed"
  /\ Editing(World, H)

\* the words a scan of the whole text of d may index: every word in naive mode,
\* the words of an identifier style otherwise
Eligible(d) ==
  IF d.lexer = "" \/ d.lexer \in NAIVE_LEXERS \/ d.use_simple_naive_mode
  THEN Words(d.lines)
  ELSE {k \in Words(d.lines) : StyleValid(HostStyle(k))}

\* this step runs the scan of start_sync_edit on the whole, selected text of H
ScanStep ==
  /\ Len(docs[H].carets) = 1
  /\ SortedSel(docs[H].carets[1]) = SortedSel(SelectAll(docs[H]).carets[1])
  /\ \/ /\ last'.ev = "toggle"
        /\ ~Active(World, H)
        /\ docs[H].lexer = "" \/ docs[H].lexer \in NAIVE_LEXERS
     \/ /\ last'.ev = "lexer_timer"
        /\ H \in pending_delay_handles
        /\ docs[H].parsed

\* C10: a scan that finds no word with 2 or more occurrences ends Inactive (no
\* session, the handle in no set, no markers), with the message that no editable
\* identifiers were found, and with caret and selection as before the command
C10_NothingToEdit ==
  [][(/\ ScanStep
      /\ \A k \in Eligible(docs[H]) : Count(docs[H].lines, k) < 2)
     => /\ H \notin DOMAIN sessions'
        /\ H \notin pending_delay_handles' \cup pending_lexer_parse_handles'
        /\ H \notin active_scroll_handles' \cup active_caret_handles'
        /\ H \notin selection_scroll_handles'
        /\ docs'[H].markers = <<>>
        /\ status' = "No editable identifiers found"
        /\ docs'[H].carets = docs[H].carets]_vars

\* a scan of a selected text found nothing to edit
C10_Witness ==
  /\ last.ev \in {"toggle", "lexer_timer"}
  /\ status = "No editable identifiers found"
  /\ H \notin DOMAIN sessions
  /\ docs[H].carets = SelectAll(docs[H]).carets
  /\ \A k \in Eligible(docs[H]) : Count(docs[H].lines, k) < 2

\* the tokens of the word being edited
EditedTokens(ses) == Range(Bucket(ses, ses.our_key))

\* the keys that line_index stores next to token id
KeysOf(ses, id) ==
  {e[2] : e \in {f \in UNION {Range(ses.line_index[y]) : y \in DOMAIN ses.line_index} :
                   f[1] = id}}

\* the tokens of set S that end at or before column x of line y
EndingBefore(ses, S, y, x) ==
  {j \in S : ses.tokens[j].start_y = y /\ ses.tokens[j].end_x <= x}

\* every token of the edited word W records an occurrence of W in the text, and
\* there is one caret in each of them, off columns after its start
CaretsAtOffset(ses, d, off) ==
  /\ ~NoKey(ses.our_key)
  /\ EditedTokens(ses) # {}
  /\ \A id \in EditedTokens(ses) :
        /\ ses.tokens[id].text = ses.our_key
        /\ ses.tokens[id].end_x = ses.tokens[id].start_x + Len(ses.our_key)
        /\ ses.tokens[id].start_x \in Occurrences(d.lines[ses.tokens[id].start_y + 1],
                                                  ses.our_key)
  /\ Len(d.carets) = Cardinality(EditedTokens(ses))
  /\ {<<d.carets[i][1], d.carets[i][2]>> : i \in 1..Len(d.carets)}
       = {<<ses.tokens[id].start_x + off, ses.tokens[id].start_y>> :
            id \in EditedTokens(ses)}

\* one caret at the end of each occurrence of the edited word
CaretsAtEnds(ses, d) == CaretsAtOffset(ses, d, Len(ses.our_key))

\* token id of ses is at columns start_x..end_x with that text in ses2
TokenIs(ses2, id, start_x, end_x, text) ==
  /\ id \in DOMAIN ses2.tokens
  /\ ses2.tokens[id].start_x = start_x
  /\ ses2.tokens[id].end_x = end_x
  /\ ses2.tokens[id].text = text

\* C2: when a character is appended to every occurrence of the edited word W, every
\* token of W gets the new text at its real columns in the edited line, and every
\* other token of the line that started at or after the end of an occurrence of W
\* moves right by one column for each occurrence of W before it
C2_AppendPropagates ==
  [][(/\ Editing(World, H)
      /\ CaretsAtEnds(sessions[H], docs[H])
      /\ last'.ev = "key" /\ last'.arg \in TypedChars)
     => /\ H \in DOMAIN sessions'
        /\ \A id \in EditedTokens(sessions[H]) :
              /\ TokenIs(sessions'[H], id,
                   sessions[H].tokens[id].start_x
                     + Cardinality(EndingBefore(sessions[H], EditedTokens(sessions[H]),
                                                sessions[H].tokens[id].start_y,
                                                sessions[H].tokens[id].start_x)),
                   sessions[H].tokens[id].end_x + 1
                     + Cardinality(EndingBefore(sessions[H], EditedTokens(sessions[H]),
                                                sessions[H].tokens[id].start_y,
                                                sessions[H].tokens[id].start_x)),
                   sessions[H].our_key \o <<last'.arg>>)
              /\ sessions'[H].tokens[id].start_x
                   \in Occurrences(docs'[H].lines[sessions[H].tokens[id].start_y + 1],
                                   sessions[H].our_key \o <<last'.arg>>)
        /\ \A id \in Referenced(sessions[H]) \ EditedTokens(sessions[H]) :
              EndingBefore(sessions[H], EditedTokens(sessions[H]),
                           sessions[H].tokens[id].start_y,
                           sessions[H].tokens[id].start_x) # {}
              => TokenIs(sessions'[H], id,
                   sessions[H].tokens[id].start_x
                     + Cardinality(EndingBefore(sessions[H], EditedTokens(sessions[H]),
                                                sessions[H].tokens[id].start_y,
                                                sessions[H].tokens[id].start_x)),
                   sessions[H].tokens[id].end_x
                     + Cardinality(EndingBefore(sessions[H], EditedTokens(sessions[H]),
                                                sessions[H].tokens[id].start_y,
                                                sessions[H].tokens[id].start_x)),
                   sessions[H].tokens[id].text)]_vars

\* a key step in which redraw ran and changed the recorded text of the edited word
RedrawChangedWord ==
  /\ Editing(World, H)
  /\ last'.ev = "key" /\ last'.ret
  /\ H \in DOMAIN sessions' /\ sessions'[H].editing
  /\ \E id \in EditedTokens(sessions[H]) :
        id \in DOMAIN sessions'[H].tokens
        /\ sessions'[H].tokens[id].text # sessions[H].tokens[id].text

\* C8: a redraw that changes the edited word leaves as they were the tokens of the
\* lines that hold no occurrence of it, and the tokens of the other lines that start
\* before the old end of every occurrence on their line
C8_RedrawFrame ==
  [][RedrawChangedWord
     => \A id \in Referenced(sessions[H]) \ EditedTokens(sessions[H]) :
          (\A j \in EditedTokens(sessions[H]) :
              sessions[H].tokens[j].start_y = sessions[H].tokens[id].start_y
              => sessions[H].tokens[id].start_x < sessions[H].tokens[j].end_x)
          => /\ TokenIs(sessions'[H], id, sessions[H].tokens[id].start_x,
                        sessions[H].tokens[id].end_x, sessions[H].tokens[id].text)
             /\ KeysOf(sessions'[H], id) = KeysOf(sessions[H], id)]_vars

\* this key step deletes the last character of every occurrence of the edited word
DeletesWord ==
  /\ Editing(World, H)
  /\ Len(sessions[H].our_key) = 1
  /\ last'.ev = "key"
  /\ \/ last'.arg = "Backspace" /\ CaretsAtOffset(sessions[H], docs[H], 1)
     \/ last'.arg = "Delete" /\ CaretsAtOffset(sessions[H], docs[H], 0)

\* the session is editing word k
EditingWord(ss, k) == H \in DOMAIN ss /\ ss[H].editing /\ ss[H].our_key = k

\* the bucket of k holds n tokens, all of zero length and without text
ZeroLength(ses, k, n) ==
  /\ k \in DOMAIN ses.dictionary
  /\ Len(ses.dictionary[k]) = n
  /\ \A id \in Range(ses.dictionary[k]) :
        ses.tokens[id].start_x = ses.tokens[id].end_x /\ ses.tokens[id].text = <<>>

\* neither index knows key k
KeyGone(ses, k) == k \notin DOMAIN ses.dictionary /\ \A id \in Referenced(ses) : k \notin KeysOf(ses, id)

\* the edited word has been deleted: it is recorded as zero-length
EditingEmptied ==
  /\ Editing(World, H)
  /\ ~NoKey(sessions[H].our_key)
  /\ Bucket(sessions[H], sessions[H].our_key) # <<>>
  /\ ZeroLength(sessions[H], sessions[H].our_key,
                Len(Bucket(sessions[H], sessions[H].our_key)))

\* C4: when all characters of the edited word are deleted its bucket stays under its
\* key with as many tokens, all zero-length and without text, while the session is
\* editing that word; once the user has left it neither index knows the key
C4_EmptyWordKeptThenRemoved ==
  [][/\ DeletesWord =>
          IF EditingWord(sessions', sessions[H].our_key)
          THEN ZeroLength(sessions'[H], sessions[H].our_key,
                          Len(Bucket(sessions[H], sessions[H].our_key)))
          ELSE H \in DOMAIN sessions' => KeyGone(sessions'[H], sessions[H].our_key)
     /\ EditingEmptied =>
          IF EditingWord(sessions', sessions[H].our_key)
          THEN ZeroLength(sessions'[H], sessions[H].our_key,
                          Len(Bucket(sessions[H], sessions[H].our_key)))
          ELSE H \in DOMAIN sessions' => KeyGone(sessions'[H], sessions[H].our_key)]_vars

\* word k with the character ch put in at offset off
Insert(k, off, ch) == SubSeq(k, 1, off) \o <<ch>> \o SubSeq(k, off + 1, Len(k))

RECURSIVE ReplaceAt(_, _, _, _)
\* line with the n characters at each column of xs replaced by new, rightmost first
ReplaceAt(line, xs, n, new) ==
  IF xs = {} THEN line
  ELSE ReplaceAt(SubSeq(line, 1, CHOOSE m \in xs : \A z \in xs : z <= m) \o new
                   \o SubSeq(line, (CHOOSE m \in xs : \A z \in xs : z <= m) + n + 1, Len(line)),
                 xs \ {CHOOSE m \in xs : \A z \in xs : z <= m}, n, new)

\* the text with every occurrence of word k replaced by new
Renamed(lines, k, new) ==
  [y \in 1..Len(lines) |-> ReplaceAt(lines[y], Occurrences(lines[y], k), Len(k), new)]

\* the bucket of k records exactly the occurrences of k in the text
IndexHolds(ses, lines, k) ==
  /\ k \in DOMAIN ses.dictionary
  /\ {<<ses.tokens[id].start_y, ses.tokens[id].start_x, ses.tokens[id].end_x,
        ses.tokens[id].text>> : id \in Range(ses.dictionary[k])}
       = UNION {{<<y - 1, x, x + Len(k), k>> : x \in Occurrences(lines[y], k)} :
                y \in 1..Len(lines)}

\* the states in which the user has left Editing from w: w itself if the session has
\* left it already, else what a click or a caret key that ends Editing leads to
LeftEditing(w) ==
  IF ~Editing(w, H) THEN {w}
  ELSE {v \in {OnClick(w, H, p[1], p[2]) :
                 p \in UNION {{<<x, y - 1>> : x \in 0..Len(w.docs[H].lines[y])} :
                              y \in 1..Len(w.docs[H].lines)}}
              \cup {OnKey(w, H, key)[1] :
                      key \in {m \in {"Left", "Right"} : HostKeyDefined(w.docs[H], m)}} :
          ~Editing(v, H)}

\* start, click at offset off of the word at column x of line y, type ch, leave
RoundTrip(w, x, y, off, ch) ==
  LeftEditing(OnKey(OnClick(toggle(w, H), H, x + off, y), H, ch)[1])

\* C3: start a session, click an occurrence of a word W, type so that W becomes a
\* new identifier, leave Editing: the text differs from the old one exactly in that
\* every occurrence of W reads the new word, and the index holds the new word there
C3_RoundTrip ==
  (last.ev = "init" /\ Active(toggle(World, H), H)) =>
    \A k \in {m \in Eligible(docs[H]) : Count(docs[H].lines, m) >= 2} :
      \A y \in 1..Len(docs[H].lines) : \A x \in Occurrences(docs[H].lines[y], k) :
        \A off \in 0..Len(k) : \A ch \in TypedChars :
          Insert(k, off, ch) \notin Words(docs[H].lines) =>
            \A v \in RoundTrip(World, x, y - 1, off, ch) :
              /\ v.docs[H].lines = Renamed(docs[H].lines, k, Insert(k, off, ch))
              /\ H \in DOMAIN v.sessions
              /\ IndexHolds(v.sessions[H], v.docs[H].lines, Insert(k, off, ch))

(***************************************************************************)
(* Leaving Editing.                                                        *)
(***************************************************************************)
\* the step is a key press in document h that the editor acted on and that took the
\* session from Editing to Selection (on_caret called finish_editing)
KeyLeftEditing(h) ==
  /\ last'.ev = "key" /\ last'.h = h /\ last'.ret
  /\ Editing(World, h)
  /\ h \in DOMAIN sessions' /\ ~sessions'[h].editing

\* the one caret at the place of caret number i (from 0) of document d
OnlyCaretOf(d, i) == <<<<d.carets[i + 1][1], d.carets[i + 1][2], -1, -1>>>>

\* C11: when finish_editing ends Editing with N carets and an occurrence index
\* i < N, exactly one caret remains, at the place the i-th caret in (line, column)
\* order had when the handler started
C11_CaretOfClickedOccurrence ==
  [][\A h \in DOMAIN docs :
       KeyLeftEditing(h) =>
         \E d \in {HostKey(docs[h], last'.arg)} :
            \E i \in {sessions[h].original_occurrence_index} :
               (i # NoneInt /\ i < Len(d.carets)) =>
                  docs'[h].carets = OnlyCaretOf(d, i)]_vars

\* a Right key ended Editing and left the one caret on the second line, although
\* the edited word "a" also stands at the start of the first line
C11_Witness ==
  /\ last.ev = "key" /\ last.arg = "Right" /\ last.ret
  /\ H \in DOMAIN sessions /\ sessions[H].selected /\ ~sessions[H].editing
  /\ Len(docs[H].carets) = 1 /\ docs[H].carets[1][2] = 1
  /\ docs[H].lines[1][1] = "a" /\ status = ""

(***************************************************************************)
(* Renaming the edited word into a key that exists.                        *)
(***************************************************************************)
\* word k after key acted at offset off of it
NewWord(k, off, key) ==
  CASE key = "Backspace" -> SubSeq(k, 1, off - 1) \o SubSeq(k, off + 1, Len(k))
    [] key = "Delete" -> SubSeq(k, 1, off) \o SubSeq(k, off + 2, Len(k))
    [] OTHER -> Insert(k, off, key)

\* this key step acts at offset off of every occurrence of the edited word and
\* turns it into a non-empty word that is the key of another bucket
RenamesToKey(off, key) ==
  /\ Editing(World, H)
  /\ CaretsAtOffset(sessions[H], docs[H], off)
  /\ last'.ev = "key" /\ last'.arg = key
  /\ key \in TypedChars \cup {"Backspace", "Delete"}
  /\ key = "Backspace" => off > 0
  /\ key = "Delete" => off < Len(sessions[H].our_key)
  /\ NewWord(sessions[H].our_key, off, key) # <<>>
  /\ NewWord(sessions[H].our_key, off, key) # sessions[H].our_key
  /\ NewWord(sessions[H].our_key, off, key) \in DOMAIN sessions[H].dictionary

\* the bucket of new holds the tokens of bucket old of session ses, and only
\* them, in session ses2, which edits new and has no bucket old
Overwritten(ses, ses2, old, new) ==
  /\ ses2.our_key = new
  /\ new \in DOMAIN ses2.dictionary
  /\ Range(ses2.dictionary[new]) = Range(ses.dictionary[old])
  /\ Len(ses2.dictionary[new]) = Len(ses.dictionary[old])
  /\ old \notin DOMAIN ses2.dictionary

\* C12: when a key turns the edited word into a non-empty string that is the key
\* of another bucket, redraw does not merge the two: afterwards the bucket of the
\* new key holds exactly the edited tokens, as many as before, the old key is
\* gone and our_key is the new key
C12_RenameOverwrites ==
  [][\A off \in 0..Len(docs[H].lines[1]) :
       \A key \in TypedChars \cup {"Backspace", "Delete"} :
       RenamesToKey(off, key) =>
         /\ H \in DOMAIN sessions'
         /\ Overwritten(sessions[H], sessions'[H], sessions[H].our_key,
                        NewWord(sessions[H].our_key, off, key))]_vars

(***************************************************************************)
(* Leaving the session.                                                    *)
(***************************************************************************)
\* the step is one of the four ways out, taken in document h: Esc, the toggle
\* command (or the gutter icon), close, reload
ExitEvent(h) ==
  /\ last'.h = h
  /\ \/ last'.ev = "key" /\ last'.arg = "Esc"
     \/ last'.ev \in {"toggle", "close", "reopen"}

\* document h of world w is Inactive: no session, no dispatch of scroll and caret
\* events, no markers
Inactive(w, h) ==
  /\ h \notin DOMAIN w.sessions
  /\ h \notin w.active_scroll_handles
  /\ h \notin w.active_caret_handles
  /\ h \in DOMAIN w.docs => w.docs[h].markers = <<>>

\* C13: from Selection or Editing, each of Esc, the toggle command or gutter click,
\* closing the document and reloading it leads to Inactive in one step: the
\* session entry is removed, the handle is in neither active_scroll_handles nor
\* active_caret_handles, and the markers are cleared
C13_ExitInOneStep ==
  [][\A h \in DOMAIN docs :
       (Active(World, h) /\ ExitEvent(h)) =>
          /\ Inactive(World, h)'
          /\ last'.ev = "close" => Inactive(on_close(Before, h), h)]_vars

\* a reload has just deactivated the session of a document without lexer (which has
\* a session only while it is in Selection or Editing)
C13_Witness ==
  /\ last.ev = "reopen" /\ last.h = H /\ status = "Deactivated"
  /\ H \in DOMAIN docs /\ docs[H].lexer = ""
  /\ Inactive(World, H)

(***************************************************************************)
(* The integrity check of on_caret.                                        *)
(***************************************************************************)
\* the carets of document d do not match the occurrences of the edited word of
\* session ses: another number, or caret i on another line than occurrence i
CaretsBroken(ses, d) ==
  \/ Len(d.carets) # Len(Bucket(ses, ses.our_key))
  \/ \E i \in 1..Len(d.carets) :
        d.carets[i][2] # ses.tokens[Bucket(ses, ses.our_key)[i]].start_y

\* session ses is in Selection with nothing left of the edit
BackInSelection(ses) ==
  /\ ses.selected /\ ~ses.editing
  /\ ses.our_key = NoneKey
  /\ ses.original_occurrence_index = NoneInt

\* C14: on every on_caret in Editing without a mouse button the integrity is
\* checked first: when the number of carets differs from the number of occurrences
\* of the edited word, or caret i is on another line than occurrence i, the session
\* goes back to Selection (editing false, selected true, the active word and the
\* occurrence index cleared, one caret left); it does not become Inactive
C14_BrokenCaretsEndEditing ==
  [][\A h \in DOMAIN docs :
       (/\ Editing(World, h) /\ ~NoKey(sessions[h].our_key)
        /\ last'.ev = "key" /\ last'.h = h /\ last'.ret
        /\ CaretsBroken(sessions[h], HostKey(docs[h], last'.arg)))
       => /\ h \in DOMAIN sessions'
          /\ BackInSelection(sessions'[h])
          /\ Len(docs'[h].carets) = 1]_vars

(***************************************************************************)
(* Sessions of different documents.                                        *)
(***************************************************************************)
\* the session of document b and b's membership in the handle sets are the same
\* before and after the step
SessionKept(b) ==
  /\ (b \in DOMAIN sessions') = (b \in DOMAIN sessions)
  /\ b \in DOMAIN sessions => sessions'[b] = sessions[b]
  /\ (b \in pending_delay_handles') = (b \in pending_delay_handles)
  /\ (b \in pending_lexer_parse_handles') = (b \in pending_lexer_parse_handles)
  /\ (b \in active_scroll_handles') = (b \in active_scroll_handles)
  /\ (b \in active_caret_handles') = (b \in active_caret_handles)

\* C15: an event handled for one document leaves the session of every other
\* document (mode, dictionary, line_index, active word, occurrence index) and its
\* membership in the pending and active handle sets unchanged; closing a document
\* removes exactly its own entry from sessions
C15_SessionsIndependent ==
  [][/\ \A b \in Handles \ {last'.h} : SessionKept(b)
     /\ last'.ev = "close" => DOMAIN sessions' = DOMAIN sessions \ {last'.h}]_vars

\* a key was typed into the word edited in document H while the other document
\* is in Editing too
C15_Witness ==
  /\ last.h = H /\ last.ev = "key" /\ last.arg \in TypedChars /\ last.ret
  /\ Editing(World, H) /\ Editing(World, 2)

(***************************************************************************)
(* Leaving while the 600 ms timer is pending.                              *)
(***************************************************************************)
\* in world w the 600 ms timer of h is neither pending nor awaited, and a late call
\* of lexer_timer for h changes nothing: no scan runs, h stays Inactive
TimerDead(w, h) ==
  /\ h \notin w.pending_delay_handles
  /\ <<"lexer_timer", h>> \notin DOMAIN w.timers
  /\ lexer_timer(w, h) = w
  /\ Inactive(w, h)

\* C16: when reset runs with lexer-event cleanup (as on close) while the 600 ms
\* timer of the document is pending, the handle leaves pending_delay_handles, the
\* timer is stopped, a lexer_timer call that still arrives runs no scan, and the
\* document stays Inactive
C16_PendingTimerCancelled ==
  [][\A h \in DOMAIN docs :
       (h \in pending_delay_handles /\ last'.ev = "close" /\ last'.h = h)
       => TimerDead(World, h)']_vars

\* the 600 ms timer of a document is pending, and closing the document now leaves
\* the timer dead
C16_Witness ==
  \E h \in DOMAIN docs :
     /\ h \in pending_delay_handles
     /\ <<"lexer_timer", h>> \in DOMAIN timers
     /\ TimerDead(on_close(World, h), h)

(***************************************************************************)
(* The advisory of on_lexer_parsed.                                        *)
(***************************************************************************)
\* C17: the "restart the session" advisory (msg_box) is shown at most once for a
\* document between two reloads of it
C17_AdvisoryOnce == \A h \in Handles : boxes[h] <= 1

\* the parser has notified the plugin again for a document that is in Selection
\* or Editing, after the advisory it got when its deferred start was waiting
C17_Witness ==
  /\ last.ev = "lexer_parsed"
  /\ boxes[last.h] = 1
  /\ Active(World, last.h)

(***************************************************************************)
(* The scroll debounce.                                                    *)
(***************************************************************************)
\* the number of pending scroll timers of document h
PendingScrollTimers(ts, h) ==
  IF <<"scroll_timer", h>> \in DOMAIN ts THEN ts[<<"scroll_timer", h>>] ELSE 0

\* C18: a document has at most one scroll timer pending; an on_scroll in Selection
\* or Editing stops the pending timer and starts a new one without repainting, so
\* that after a burst of scrolls one timer is pending, and when it expires it
\* repaints once and none is pending
C18_OneScrollTimer ==
  [][\A h \in Handles :
       /\ PendingScrollTimers(timers', h) <= 1
       /\ (last'.ev = "scroll" /\ last'.h = h /\ Active(World, h))
          => /\ PendingScrollTimers(timers', h) = 1
             /\ docs'[h].markers = docs[h].markers
       /\ (last'.ev = "scroll_timer" /\ last'.h = h)
          => PendingScrollTimers(timers', h) = 0]_vars

\* document H has just been scrolled in Selection or Editing: one timer is pending
\* and the markers are not yet those of the lines now shown
C18_Witness ==
  /\ last.ev = "scroll" /\ last.h = H
  /\ Active(World, H)
  /\ PendingScrollTimers(timers, H) = 1
  /\ _on_scroll_timer_finished(World, H).docs[H].markers # docs[H].markers

(***************************************************************************)
(* The naive scan of a selection of whole lines.                           *)
(***************************************************************************)
MaxScanLines == 3

\* the lines of the scanned texts: a word three characters long twice around
\* another, the two words swapped, a word in both cases, a word that is the
\* prefix of another, a line that starts and ends with blanks
ScanLines ==
  {<<"a", "a", "a", " ", "b", "b", "b", " ", "a", "a", "a">>,
   <<"b", "b", "b", " ", "a", "a", "a", " ", "b", "b", "b">>,
   <<"a", " ", "A", " ", "a">>,
   <<"a", "b", " ", "a", " ", "a", "b">>,
   <<" ", "A", " ", " ", "b", " ">>}

ScanTexts == [1..MaxScanLines -> ScanLines]

\* the caret that selects the lines y1..y2 of document d, whole
WholeLines(d, y1, y2) == <<0, y1, LineLen(d, y2), y2>>

\* a document without lexer, some of its lines selected, before any command
InitScan ==
  /\ \E t \in ScanTexts : \E y1 \in 0..(MaxScanLines - 1) : \E y2 \in y1..(MaxScanLines - 1) :
        docs = (H :> [NewDoc(t, "", TRUE) EXCEPT
                        !.carets = <<WholeLines(NewDoc(t, "", TRUE), y1, y2)>>])
  /\ sessions = EmptyFcn
  /\ pending_delay_handles = {}
  /\ pending_lexer_parse_handles = {}
  /\ active_scroll_handles = {}
  /\ active_caret_handles = {}
  /\ lexer_parsed_message_shown = {}
  /\ selection_scroll_handles = {}
  /\ timers = EmptyFcn
  /\ status = ""
  /\ boxes = [h \in Handles |-> 0]
  /\ last = [h |-> H, ev |-> "init", arg |-> "", ret |-> TRUE]
  /\ nkeys = 0

\* the start command, and again to leave
NextScan == \E h \in DOMAIN docs : Toggle(h)

SpecScan == InitScan /\ [][NextScan]_vars

\* the strings of word characters that stand somewhere in the lines y1..y2 (from
\* 0) of the text
Substrings(lines, y1, y2) ==
  {k \in UNION {{SubSeq(lines[y + 1], i, j) :
                   i \in 1..Len(lines[y + 1]), j \in 1..Len(lines[y + 1])} : y \in y1..y2} :
     k # <<>> /\ \A i \in 1..Len(k) : k[i] \in WordChars}

\* the places <<line, column>> in lines y1..y2 where k stands as a whole word
Places(lines, y1, y2, k) ==
  UNION {{<<y, x>> : x \in Occurrences(lines[y + 1], k)} : y \in y1..y2}

\* the bucket of k lists the places ps, each once, in (line, column) order, every
\* token with the span and the text of k there
Listed(ses, k, ps) ==
  /\ Len(ses.dictionary[k]) = Cardinality(ps)
  /\ \A i \in 1..Len(ses.dictionary[k]) :
        /\ <<ses.tokens[ses.dictionary[k][i]].start_y,
             ses.tokens[ses.dictionary[k][i]].start_x>> \in ps
        /\ ses.tokens[ses.dictionary[k][i]].end_y = ses.tokens[ses.dictionary[k][i]].start_y
        /\ ses.tokens[ses.dictionary[k][i]].end_x
             = ses.tokens[ses.dictionary[k][i]].start_x + Len(k)
        /\ ses.tokens[ses.dictionary[k][i]].text = k
        /\ i > 1 => PosLess(ses.tokens[ses.dictionary[k][i - 1]].start_y,
                            ses.tokens[ses.dictionary[k][i - 1]].start_x,
                            ses.tokens[ses.dictionary[k][i]].start_y,
                            ses.tokens[ses.dictionary[k][i]].start_x)

\* the dictionary of ses has the keys ks, each listing its places in lines y1..y2
IndexOf(ses, lines, y1, y2, ks) ==
  /\ DOMAIN ses.dictionary = ks
  /\ \A k \in ks : Listed(ses, k, Places(lines, y1, y2, k))

\* this step is the start command on document H, which has no lexer, is scanned
\* case-sensitively and has its lines y1..y2 selected, whole
NaiveScanStep(y1, y2) ==
  /\ last'.ev = "toggle"
  /\ ~has_session(World, H)
  /\ docs[H].lexer = "" /\ docs[H].case_sensitive
  /\ y1 <= y2 /\ y2 < Len(docs[H].lines)
  /\ docs[H].carets = <<WholeLines(docs[H], y1, y2)>>

\* C19: after a naive, case-sensitive scan of a selection of whole lines a word is
\* a key of the dictionary iff the identifier regex matches it 2 or more times in
\* the selection, and its bucket lists exactly those matches, each once, in
\* (line, column) order, with their spans
C19_NaiveScanExact ==
  [][\A y1, y2 \in 0..(MaxScanLines - 1) :
       NaiveScanStep(y1, y2) =>
         \E ks \in {{k \in Substrings(docs[H].lines, y1, y2) :
                       Cardinality(Places(docs[H].lines, y1, y2, k)) >= 2}} :
            ks # {} => /\ H \in DOMAIN sessions'
                       /\ IndexOf(sessions'[H], docs[H].lines, y1, y2, ks)]_vars

\* the text of the example has been scanned: the keys are aaa and bbb, with 5 and
\* 4 tokens, and line_index holds these 9 tokens
C19_Witness ==
  /\ AfterScan(H)
  /\ docs[H].lines = <<<<"a", "a", "a", " ", "b", "b", "b", " ", "a", "a", "a">>,
                       <<"b", "b", "b", " ", "a", "a", "a", " ", "b", "b", "b">>,
                       <<"a", "a", "a", " ", "b", "b", "b", " ", "a", "a", "a">>>>
  /\ DOMAIN sessions[H].dictionary = {<<"a", "a", "a">>, <<"b", "b", "b">>}
  /\ Len(sessions[H].dictionary[<<"a", "a", "a">>]) = 5
  /\ Len(sessions[H].dictionary[<<"b", "b", "b">>]) = 4
  /\ Cardinality(Referenced(sessions[H])) = 9

\* the tokens the naive scan finds on line y of document d when all of the text is
\* selected
LineTokens(d, y) ==
  NaiveLine(d, y, 0, Len(d.lines) - 1, 0, LineLen(d, Len(d.lines) - 1), d.case_sensitive)

\* the tokens ts lie in line one after the other without overlap, each with the
\* characters of its span as text
InOrder(line, ts) ==
  /\ \A i \in 1..Len(ts) :
        /\ 0 <= ts[i].start_x /\ ts[i].start_x < ts[i].end_x /\ ts[i].end_x <= Len(line)
        /\ ts[i].text = SubSeq(line, ts[i].start_x + 1, ts[i].end_x)
  /\ \A i, j \in 1..Len(ts) : i < j => ts[i].end_x <= ts[j].start_x

RECURSIVE Rebuild(_, _, _, _)
\* the gap of line from column from to token i of ts, the text of that token, and
\* so on to the end of the line
Rebuild(line, ts, i, from) ==
  IF i > Len(ts) THEN SubSeq(line, from + 1, Len(line))
  ELSE SubSeq(line, from + 1, ts[i].start_x) \o ts[i].text
         \o Rebuild(line, ts, i + 1, ts[i].end_x)

\* the tokens that line_index of ses holds for line y, in its order
Indexed(ses, y) ==
  IF y \in DOMAIN ses.line_index
  THEN [j \in 1..Len(ses.line_index[y]) |-> ses.tokens[ses.line_index[y][j][1]]]
  ELSE <<>>

\* C20: the tokens the naive scanner yields for one line do not overlap pairwise,
\* are in ascending column order, each has as text the characters of the line in
\* [start_x, end_x), and the gaps between them together with their texts give the
\* line back; the tokens a scan has put in line_index are in that order too
C20_LineTokensTile ==
  \A h \in DOMAIN docs : \A y \in 0..(Len(docs[h].lines) - 1) :
    /\ \E ts \in {[i \in 1..Len(LineTokens(docs[h], y)) |-> LineTokens(docs[h], y)[i].tok]} :
          /\ InOrder(TextLine(docs[h], y), ts)
          /\ Rebuild(TextLine(docs[h], y), ts, 1, 0) = TextLine(docs[h], y)
    /\ AfterScan(h) => InOrder(TextLine(docs[h], y), Indexed(sessions[h], y))

\* a scan has indexed the two words of a line that starts and ends with blanks
C20_Witness ==
  /\ AfterScan(H)
  /\ TextLine(docs[H], 0) = <<" ", "A", " ", " ", "b", " ">>
  /\ Len(LineTokens(docs[H], 0)) = 2
  /\ Len(Indexed(sessions[H], 0)) = 2
  /\ Indexed(sessions[H], 0)[1].start_x = 1 /\ Indexed(sessions[H], 0)[2].start_x = 4

(***************************************************************************)
(* TokenRef.shift.                                                         *)
(***************************************************************************)
MaxDelta == 3

\* token t2 is token t moved by delta columns: same length, line, text and style
ShiftedBy(t, t2, delta) ==
  /\ t2.start_x = t.start_x + delta
  /\ t2.end_x = t.end_x + delta
  /\ t2.end_x - t2.start_x = t.end_x - t.start_x
  /\ t2.start_y = t.start_y /\ t2.end_y = t.end_y
  /\ t2.text = t.text /\ t2.style = t.style

\* C21: shift(delta) adds delta to start_x and to end_x of a token, so its length
\* end_x - start_x is what it was, for every delta; line, text and style stay
C21_ShiftKeepsLength ==
  \A h \in DOMAIN sessions : \A id \in DOMAIN sessions[h].tokens :
    \A delta \in (-MaxDelta)..MaxDelta :
      ShiftedBy(sessions[h].tokens[id], shift(sessions[h].tokens[id], delta), delta)

\* a character has been typed into the edited word and redraw has shifted a token
\* of another word behind it: it ends at the end of the line, which has grown
C21_Witness ==
  /\ Editing(World, H) /\ nkeys = 1
  /\ last.ev = "key" /\ last.arg \in TypedChars
  /\ \E id \in Referenced(sessions[H]) \ EditedTokens(sessions[H]) :
        /\ sessions[H].tokens[id].end_x = LineLen(docs[H], sessions[H].tokens[id].start_y)
        /\ sessions[H].tokens[id].text
             = SubSeq(TextLine(docs[H], sessions[H].tokens[id].start_y),
                      sessions[H].tokens[id].start_x + 1, sessions[H].tokens[id].end_x)
        /\ \E e \in EditedTokens(sessions[H]) :
              /\ sessions[H].tokens[e].start_y = sessions[H].tokens[id].start_y
              /\ sessions[H].tokens[e].end_x <= sessions[H].tokens[id].start_x

(***************************************************************************)
(* Positions and text.                                                     *)
(***************************************************************************)
\* token t lies in the lines and has as text the characters of its span
AtItsText(lines, t) ==
  /\ t.start_y >= 0 /\ t.start_y < Len(lines)
  /\ 0 <= t.start_x /\ t.start_x <= t.end_x /\ t.end_x <= Len(lines[t.start_y + 1])
  /\ t.text = SubSeq(lines[t.start_y + 1], t.start_x + 1, t.end_x)

\* every token that the indexes of ses hold is at its text
PositionsHold(ses, lines) ==
  \A id \in Referenced(ses) : AtItsText(lines, ses.tokens[id])

\* C22: after an on_caret handled in Editing that follows a single-character
\* insert or delete at all carets, or a move left or right, every token of the
\* index has as text the characters of the buffer at its span, in Editing and
\* after the return to Selection
C22_PositionsHold ==
  [][\A h \in DOMAIN docs :
       (/\ Editing(World, h)
        /\ PositionsHold(sessions[h], docs[h].lines)
        /\ last'.ev = "key" /\ last'.h = h /\ last'.ret
        /\ h \in DOMAIN sessions')
       => PositionsHold(sessions'[h], docs'[h].lines)]_vars

(***************************************************************************)
(* Esc and reload during the deferred start.                               *)
(***************************************************************************)
\* in world w the deferred start of h is cancelled: h is not awaited by the timer,
\* a lexer_timer call for h runs no scan and changes nothing, h is Inactive
CancelledStart(w, h) ==
  /\ h \notin w.pending_delay_handles
  /\ lexer_timer(w, h) = w
  /\ Inactive(w, h)

\* C23: Esc, or a reload of the document, between a deferred start command and
\* the expiry of the 600 ms timer cancels the deferred start: a lexer_timer that
\* fires afterwards runs no scan and creates no session, the document stays
\* Inactive
C23_EscCancelsDeferredStart ==
  [][\A h \in DOMAIN docs :
       (/\ h \in pending_delay_handles /\ <<"lexer_timer", h>> \in DOMAIN timers
        /\ last'.h = h
        /\ \/ last'.ev = "key" /\ last'.arg = "Esc"
           \/ last'.ev = "reopen")
       => CancelledStart(World, h)']_vars

(***************************************************************************)
(* When the advisory is shown.                                             *)
(***************************************************************************)
\* C24: the restart advisory is shown only when the parser's notification for a
\* document arrives after the 600 ms timer of its deferred start has fired; a
\* notification that arrives while the timer is pending shows no advisory
C24_AdvisoryAfterTimer ==
  [][\A h \in DOMAIN docs :
       (/\ last'.ev = "lexer_parsed" /\ last'.h = h
        /\ h \in pending_delay_handles /\ <<"lexer_timer", h>> \in DOMAIN timers)
       => boxes'[h] = boxes[h]]_vars

TokenHolds(ses, key, i, x, y) ==
  LET t == ses.tokens[ses.dictionary[key][i]]
  IN  t.start_y = y /\ t.start_x <= x /\ x <= t.end_x

\* the carets a click at column x inside the token of place i puts on the bucket
ClickCarets(ses, key, i, x) ==
  LET bucket == ses.dictionary[key]
      off == x - ses.tokens[bucket[i]].start_x
  IN  {<<ses.tokens[bucket[k]].start_x + off, ses.tokens[bucket[k]].start_y>> :
         k \in 1..Len(bucket)}

\* the session h is in Selection: words are marked and none is edited
InSelection(w, h) ==
  has_session(w, h) /\ w.sessions[h].selected /\ ~w.sessions[h].editing

\* C26: a click in Selection at column x of line y inside the span of the token at
\* place i of dictionary[W] moves the session to Editing with active word W, leaves
\* exactly one caret per occurrence of W, each at its token's start_x plus the
\* click's offset, and records i (counted from 0) as the occurrence index
C26_ClickStartsEditing ==
  [][\A h \in DOMAIN docs :
       (/\ last'.ev = "click" /\ last'.h = h
        /\ InSelection(World, h))
       => \A key \in DOMAIN sessions[h].dictionary :
            \A i \in 1..Len(sessions[h].dictionary[key]) :
               TokenHolds(sessions[h], key, i, last'.arg[1], last'.arg[2])
               => /\ h \in DOMAIN sessions'
                  /\ sessions'[h].editing /\ ~sessions'[h].selected
                  /\ sessions'[h].our_key = key
                  /\ sessions'[h].original_occurrence_index = i - 1
                  /\ Len(docs'[h].carets) = Len(sessions[h].dictionary[key])
                  /\ {<<docs'[h].carets[k][1], docs'[h].carets[k][2]>> :
                        k \in 1..Len(docs'[h].carets)}
                     = ClickCarets(sessions[h], key, i, last'.arg[1])]_vars

\* ---------------------------------------------------------------------------
\* C27: a click on another known word while Editing switches the edited word

\* every marker of the document is an active border marker
OnlyBorders(d) ==
  \A k \in 1..Len(d.markers) : d.markers[k][4] = "border"

\* the word of the token that on_click finds under <<x, y>> is the known word key
ClickedWord(ses, key, x, y) ==
  /\ ClickedEntry(ses, x, y) # <<>>
  /\ ClickedEntry(ses, x, y)[1] = key
  /\ key \in DOMAIN ses.dictionary

\* C27: a click in Editing on a token of a known word W that is not the edited word
\* leaves the session in Editing (not in Selection, no passive marker painted),
\* makes W the active word, records as occurrence index the place in dictionary[W]
\* of the token that holds the click and resets the caret-integrity cache
C27_SwitchStaysEditing ==
  [][\A h \in DOMAIN docs :
       (/\ last'.ev = "click" /\ last'.h = h
        /\ Editing(World, h))
       => \A key \in DOMAIN sessions[h].dictionary \ {sessions[h].our_key} :
            ClickedWord(sessions[h], key, last'.arg[1], last'.arg[2])
            => /\ h \in DOMAIN sessions'
               /\ sessions'[h].editing /\ ~sessions'[h].selected
               /\ sessions'[h].our_key = key
               /\ \E i \in 1..Len(sessions[h].dictionary[key]) :
                     /\ TokenHolds(sessions[h], key, i, last'.arg[1], last'.arg[2])
                     /\ sessions'[h].original_occurrence_index = i - 1
               /\ sessions'[h].cached_carets_count = NoneInt
               /\ sessions'[h].cached_carets_lines = NoneList
               /\ OnlyBorders(docs'[h])]_vars

\* ---------------------------------------------------------------------------
\* C28: typing into a word that was deleted to the empty string

\* Three keys on one text without lexer, all of it selected: a word at column 1 of
\* the first line and at column 0 of the second, another word after it on both
MaxRetypeKeys == 3

RetypeText == <<<<" ", "a", " ", "a", "b">>, <<"a", " ", "a", "b">>>>

InitRetype ==
  /\ docs = (H :> SelectAll(NewDoc(RetypeText, "", TRUE)))
  /\ sessions = EmptyFcn
  /\ pending_delay_handles = {}
  /\ pending_lexer_parse_handles = {}
  /\ active_scroll_handles = {}
  /\ active_caret_handles = {}
  /\ lexer_parsed_message_shown = {}
  /\ selection_scroll_handles = {}
  /\ timers = EmptyFcn
  /\ status = ""
  /\ boxes = [h \in Handles |-> 0]
  /\ last = [h |-> H, ev |-> "init", arg |-> "", ret |-> TRUE]
  /\ nkeys = 0

\* a key press while editing, up to MaxRetypeKeys of them
KeyRetype(h, key) ==
  /\ Editing(World, h)
  /\ nkeys < MaxRetypeKeys
  /\ HostKeyDefined(docs[h], key)
  /\ \E r \in {OnKey(Before, h, key)} : Set(r[1]) /\ Event(h, "key", key, r[2])
  /\ nkeys' = nkeys + 1

NextRetype ==
  \/ Toggle(H)
  \/ \E y \in 0..(Len(docs[H].lines) - 1) :
        \E x \in 0..Len(docs[H].lines[y + 1]) : Click(H, x, y)
  \/ \E ch \in TypedChars : KeyRetype(H, ch)
  \/ KeyRetype(H, "Backspace")
  \/ KeyRetype(H, "Left")
  \/ KeyRetype(H, "Right")

SpecRetype == InitRetype /\ [][NextRetype]_vars

\* no word character stands before or after column x of line
NoWordAt(line, x) ==
  /\ x >= 1 => line[x] \notin WordChars
  /\ x + 1 <= Len(line) => line[x + 1] \notin WordChars

\* the edited word has been deleted from the text: its bucket is still under its key,
\* every token of it is zero-length and without text, the text has no word there, and
\* the carets stand on the tokens
WordDeleted(ses, d) ==
  /\ ses.editing /\ ~NoKey(ses.our_key)
  /\ ses.our_key \in DOMAIN ses.dictionary
  /\ ZeroLength(ses, ses.our_key, Len(ses.dictionary[ses.our_key]))
  /\ Len(ses.dictionary[ses.our_key]) >= 1
  /\ \A id \in EditedTokens(ses) :
        NoWordAt(d.lines[ses.tokens[id].start_y + 1], ses.tokens[id].start_x)
  /\ Len(d.carets) = Cardinality(EditedTokens(ses))
  /\ {<<d.carets[i][1], d.carets[i][2]>> : i \in 1..Len(d.carets)}
       = {<<ses.tokens[id].start_x, ses.tokens[id].start_y>> : id \in EditedTokens(ses)}

\* the number of tokens of set S on the line of token t that start at or before it
Preceding(ses, S, t) ==
  Cardinality({id \in S : /\ ses.tokens[id].start_y = t.start_y
                          /\ ses.tokens[id].start_x <= t.start_x})

\* C28: when the edited word has been deleted to the empty string (its bucket still
\* under the old key) and one identifier character is typed, redraw takes the old
\* length from the tokens' recorded text: every occurrence becomes a token of length
\* 1 with the typed character as text, shifted by the occurrences before it on its
\* line, and every other token is shifted by +1 for each occurrence before it on its
\* line, whatever the length of the old key
C28_RetypeAfterDelete ==
  [][(/\ last'.ev = "key" /\ last'.h = H /\ last'.arg \in TypedChars
      /\ Editing(World, H)
      /\ WordDeleted(sessions[H], docs[H]))
     => /\ Editing(World, H)'
        /\ \A id \in EditedTokens(sessions[H]) :
              /\ sessions'[H].tokens[id].text = <<last'.arg>>
              /\ sessions'[H].tokens[id].start_x
                   = sessions[H].tokens[id].start_x
                       + Preceding(sessions[H], EditedTokens(sessions[H]),
                                   sessions[H].tokens[id]) - 1
              /\ sessions'[H].tokens[id].end_x = sessions'[H].tokens[id].start_x + 1
        /\ \A id \in Referenced(sessions[H]) \ EditedTokens(sessions[H]) :
              /\ sessions'[H].tokens[id].text = sessions[H].tokens[id].text
              /\ sessions'[H].tokens[id].start_x
                   = sessions[H].tokens[id].start_x
                       + Preceding(sessions[H], EditedTokens(sessions[H]),
                                   sessions[H].tokens[id])
              /\ sessions'[H].tokens[id].end_x
                   = sessions[H].tokens[id].end_x
                       + Preceding(sessions[H], EditedTokens(sessions[H]),
                                   sessions[H].tokens[id])]_vars

\* ---------------------------------------------------------------------------
\* C29: the order of the tokens in a bucket

\* token t stands before token u in (line, column) order
Before2(t, u) ==
  t.start_y < u.start_y \/ (t.start_y = u.start_y /\ t.start_x < u.start_x)

\* the tokens of the bucket are in strictly ascending (line, column) order
Ascending(ses, bucket) ==
  \A i \in 1..Len(bucket) : \A j \in 1..Len(bucket) :
     i < j => Before2(ses.tokens[bucket[i]], ses.tokens[bucket[j]])

\* the carets of the document are as many as the tokens of the bucket, sorted by
\* (line, column), and the i-th caret is on the line of the i-th token
CaretPerToken(ses, d, bucket) ==
  /\ Len(d.carets) = Len(bucket)
  /\ \A i \in 1..Len(d.carets) : \A j \in 1..Len(d.carets) :
        i < j => \/ d.carets[i][2] < d.carets[j][2]
                 \/ d.carets[i][2] = d.carets[j][2] /\ d.carets[i][1] < d.carets[j][1]
  /\ \A i \in 1..Len(bucket) : d.carets[i][2] = ses.tokens[bucket[i]].start_y

\* C29: in every reachable state the tokens of every dictionary bucket are in
\* strictly ascending (line, column) order, and during Editing the token at list
\* index i of the edited word's bucket is the occurrence of the i-th caret of the
\* sorted caret list: as many carets as tokens, the i-th caret on the i-th token's line
C29_BucketsAscending ==
  \A h \in DOMAIN sessions :
     /\ \A key \in DOMAIN sessions[h].dictionary :
           Ascending(sessions[h], sessions[h].dictionary[key])
     /\ (sessions[h].editing /\ ~NoKey(sessions[h].our_key))
        => CaretPerToken(sessions[h], docs[h], Bucket(sessions[h], sessions[h].our_key))

\* ---------------------------------------------------------------------------
\* C30: the order of on_caret and on_click for one physical click

\* what the claim compares of a session: mode, active word, occurrence index and
\* both indexes, with the tokens they refer to
SessionState(w, h) ==
  IF ~has_session(w, h) THEN <<>>
  ELSE <<w.sessions[h].selected, w.sessions[h].editing, w.sessions[h].our_key,
         w.sessions[h].original_occurrence_index, w.sessions[h].dictionary,
         w.sessions[h].line_index, w.sessions[h].tokens>>

\* the state with the editor's caret put at the clicked position <<x, y>>
Clicked(w, h, x, y) == [w EXCEPT !.docs[h] = HostClick(@, x, y)]

\* C30: an on_caret delivered while a mouse button is pressed changes nothing, so
\* that for a click at any position on_caret before on_click and on_click before
\* on_caret end in the same session state; and finish_editing of a session that is
\* not Editing changes nothing
C30_ClickOrderTolerant ==
  \A h \in DOMAIN docs :
     /\ \A y \in 0..(Len(docs[h].lines) - 1) : \A x \in 0..Len(docs[h].lines[y + 1]) :
           /\ on_caret(Clicked(World, h, x, y), h, TRUE) = Clicked(World, h, x, y)
           /\ SessionState(on_click(on_caret(Clicked(World, h, x, y), h, TRUE), h), h)
                = SessionState(on_caret(on_click(Clicked(World, h, x, y), h), h, TRUE), h)
     /\ (has_session(World, h) /\ ~sessions[h].editing)
        => \A colorize \in BOOLEAN : finish_editing(World, h, colorize) = World

\* a click outside every word ended Editing after a key was typed: on_caret came
\* with several carets cached and the button down, and the session is now one that
\* finish_editing leaves alone
C30_Witness ==
  /\ last.ev = "click" /\ last.h = H /\ nkeys >= 1
  /\ InSelection(World, H)
  /\ status = ""
  /\ ClickedEntry(sessions[H], last.arg[1], last.arg[2]) = <<>>
  /\ docs[H].carets = <<<<last.arg[1], last.arg[2], -1, -1>>>>

\* ---------------------------------------------------------------------------
\* C31: the changes of mode

\* the mode of document h in world w
ModeOf(w, h) ==
  IF ~has_session(w, h) THEN "Inactive"
  ELSE IF w.sessions[h].selected /\ w.sessions[h].editing THEN "Both"
  ELSE IF w.sessions[h].editing THEN "Editing"
  ELSE IF w.sessions[h].selected THEN "Selection"
  ELSE "Inactive"

\* the changes of mode that the plugin makes
ModeChanges ==
  {<<"Inactive", "Selection">>, <<"Selection", "Editing">>, <<"Editing", "Editing">>,
   <<"Editing", "Selection">>, <<"Selection", "Inactive">>, <<"Editing", "Inactive">>}

\* C31: the mode of a document changes only along Inactive to Selection, Selection to
\* Editing, Editing to Editing, Editing to Selection, Selection to Inactive and
\* Editing to Inactive, never from Inactive to Editing in one event; and on_click,
\* on_caret and on_key for a document without an active session change nothing
C31_ModeChanges ==
  [][\A h \in DOMAIN docs :
       /\ (h \in DOMAIN docs' /\ ModeOf(World, h)' # ModeOf(World, h))
          => <<ModeOf(World, h), ModeOf(World, h)'>> \in ModeChanges
       /\ ~has_session(World, h)
          => /\ on_click(World, h) = World
             /\ \A mouse \in BOOLEAN : on_caret(World, h, mouse) = World
             /\ \A key \in TypedChars \cup {"Esc", "Enter", "Left", "Backspace"} :
                   on_key(World, h, key) = <<World, TRUE>>]_vars

\* Esc took document H from Editing, reached from Selection by a click and kept over
\* a key, back to Inactive, where the three handlers return at once
C31_Witness ==
  /\ last.ev = "key" /\ last.arg = "Esc" /\ last.h = H /\ ~last.ret
  /\ nkeys >= 1
  /\ ModeOf(World, H) = "Inactive"
  /\ on_click(World, H) = World

\* ---------------------------------------------------------------------------
\* C32: a lexer-mode scan without tokens, and one without repeated words

\* the 600 ms timer of document h fires and the scan runs in lexer mode
LexerScanStep(h) ==
  /\ last'.ev = "lexer_timer" /\ last'.h = h
  /\ h \in pending_delay_handles
  /\ HasTextSel(docs[h])
  /\ docs[h].lexer # "" /\ docs[h].lexer \notin NAIVE_LEXERS
  /\ ~docs[h].use_simple_naive_mode

\* the start was given up: no session, no markers, the caret and the selection as
\* they were before the scan
GivenUp(h) ==
  /\ ModeOf(World, h)' = "Inactive"
  /\ h \notin DOMAIN sessions'
  /\ docs'[h].markers = <<>>
  /\ docs'[h].carets = docs[h].carets

\* C32: when a lexer-mode scan receives no syntax tokens the document returns to
\* Inactive with the caret and the selection restored and the handle stays in
\* pending_lexer_parse_handles; when there are tokens but no word occurs twice, the
\* document returns to Inactive as well and the handle leaves
\* pending_lexer_parse_handles
C32_NoTokensKeepsWaiting ==
  [][\A h \in DOMAIN docs :
       LexerScanStep(h)
       => /\ GetToken(docs[h], GetSelLines(docs[h])[1], GetSelLines(docs[h])[2]) = <<>>
             => /\ GivenUp(h)
                /\ status' = "No syntax tokens found"
                /\ h \in pending_lexer_parse_handles
                /\ h \in pending_lexer_parse_handles'
          /\ (/\ GetToken(docs[h], GetSelLines(docs[h])[1], GetSelLines(docs[h])[2]) # <<>>
              /\ status' = "No editable identifiers found")
             => /\ GivenUp(h)
                /\ h \notin pending_lexer_parse_handles']_vars

\* the timer fired before the lexer had parsed the selected text: the start was given
\* up, the selection is back and the handle still waits for the notification
C32_Witness ==
  /\ last.ev = "lexer_timer" /\ last.h = H
  /\ status = "No syntax tokens found"
  /\ ~has_session(World, H)
  /\ HasTextSel(docs[H])
  /\ ~docs[H].parsed
  /\ H \in pending_lexer_parse_handles
  /\ H \notin pending_delay_handles

(***************************************************************************)
(* The scan of a selection with arbitrary ends, with and without lexer.    *)
(***************************************************************************)
\* three lines with the words a, b and ab, each of them on several lines and the
\* word a twice on the first
ClipText == <<<<"a", "b", " ", "a", " ", "a">>,
              <<"a", " ", "b", " ", "a", "b">>,
              <<"b", " ", "a">>>>

\* the positions <<x, y>> of the text, the end of each line included
ClipPositions ==
  {<<x, y>> : x \in 0..6, y \in 0..2} \cap
     {p \in (0..6) \X (0..2) : p[1] <= Len(ClipText[p[2] + 1])}

\* a document without lexer or with a parsed one; its caret at one position and the
\* selection's other end at another, in either order
InitClip ==
  /\ \E lexer \in {"", "Python"} : \E p \in ClipPositions : \E q \in ClipPositions \ {p} :
        docs = (H :> [NewDoc(ClipText, lexer, TRUE) EXCEPT
                        !.carets = <<<<p[1], p[2], q[1], q[2]>>>>])
  /\ sessions = EmptyFcn
  /\ pending_delay_handles = {}
  /\ pending_lexer_parse_handles = {}
  /\ active_scroll_handles = {}
  /\ active_caret_handles = {}
  /\ lexer_parsed_message_shown = {}
  /\ selection_scroll_handles = {}
  /\ timers = EmptyFcn
  /\ status = ""
  /\ boxes = [h \in Handles |-> 0]
  /\ last = [h |-> H, ev |-> "init", arg |-> "", ret |-> TRUE]
  /\ nkeys = 0

\* the start command, and the 600 ms timer of a start with lexer
NextClip ==
  \/ Toggle(H)
  \/ LexerTimer(H)

SpecClip == InitClip /\ [][NextClip]_vars

\* ---------------------------------------------------------------------------
\* C33: the scan keeps no token that the selection cuts

\* the selection c (in order) ends at column 0 of a line after its first
EndsAtLineStart(c) == c[3] = 0 /\ c[4] > c[2]

\* the end of selection c (in order) as the scan takes it: <<column, line>>
ClipEnd(d, c) ==
  IF EndsAtLineStart(c) THEN <<Len(d.lines[c[4]]), c[4] - 1>> ELSE <<c[3], c[4]>>

\* every indexed token of session ses is inside the selection c (in order) of d
InsideSelection(ses, d, c) ==
  \A id \in Referenced(ses) :
     /\ c[2] <= ses.tokens[id].start_y /\ ses.tokens[id].start_y <= ClipEnd(d, c)[2]
     /\ ses.tokens[id].start_y = c[2] => ses.tokens[id].start_x >= c[1]
     /\ ses.tokens[id].start_y = ClipEnd(d, c)[2] => ses.tokens[id].end_x <= ClipEnd(d, c)[1]

\* the handler of event ev
Handled(w, h, ev) ==
  IF ev = "toggle" THEN toggle(w, h) ELSE lexer_timer(w, h)

\* the index of a session
IndexOfSession(ses) == <<ses.dictionary, ses.line_index, ses.tokens>>

\* C33: after a scan in either mode every indexed token lies inside the selection: no
\* token of the first selected line starts before the selection's start column and
\* none of the last selected line ends after its end column; and a selection that
\* ends at column 0 of a following line gives the index of the selection that ends
\* at the end of the line before
C33_TokensInsideSelection ==
  [][(/\ last'.ev \in {"toggle", "lexer_timer"} /\ last'.h = H
      /\ ~has_session(World, H)
      /\ InSelection(World, H)')
     => /\ InsideSelection(sessions'[H], docs[H], SortedSel(docs[H].carets[1]))
        /\ EndsAtLineStart(SortedSel(docs[H].carets[1]))
           => IndexOfSession(sessions'[H])
                = IndexOfSession(
                    Handled([Before EXCEPT
                               !.docs[H].carets =
                                  <<<<SortedSel(docs[H].carets[1])[1],
                                      SortedSel(docs[H].carets[1])[2],
                                      ClipEnd(docs[H], SortedSel(docs[H].carets[1]))[1],
                                      ClipEnd(docs[H], SortedSel(docs[H].carets[1]))[2]>>>>],
                            H, last'.ev).sessions[H])]_vars

\* a scan without lexer of a selection that started at column 1 of line 0, inside the
\* word ab, and reached into line 1: line 0 has indexed tokens, none of them before
\* column 1
C33_Witness ==
  /\ last.ev = "toggle" /\ last.h = H
  /\ InSelection(World, H)
  /\ docs[H].lexer = ""
  /\ docs[H].carets = <<<<1, 0, -1, -1>>>>
  /\ docs[H].lines[1][1] \in WordChars /\ docs[H].lines[1][2] \in WordChars
  /\ \E id \in Referenced(sessions[H]) : sessions[H].tokens[id].start_y = 0
  /\ \E id \in Referenced(sessions[H]) : sessions[H].tokens[id].start_y = 1
  /\ \A id \in Referenced(sessions[H]) :
        sessions[H].tokens[id].start_y = 0 => sessions[H].tokens[id].start_x >= 1

\* ---------------------------------------------------------------------------
\* C34: what is painted

\* the paint call for token id
MarkerOf(ses, id, kind) ==
  <<ses.tokens[id].start_y, ses.tokens[id].start_x,
    ses.tokens[id].end_x - ses.tokens[id].start_x, kind>>

\* the tokens of set ids whose line the document shows
Shown(ses, d, ids) ==
  {id \in ids : d.top <= ses.tokens[id].start_y /\ ses.tokens[id].start_y <= d.bottom}

\* the paint calls in d are one for each shown token of ids and no other, in
\* ascending (line, column) order
Painted(ses, d, ids, kind) ==
  /\ Len(d.markers) = Cardinality(Shown(ses, d, ids))
  /\ \A id \in Shown(ses, d, ids) :
        Cardinality({k \in 1..Len(d.markers) : d.markers[k] = MarkerOf(ses, id, kind)})
          = Cardinality({j \in Shown(ses, d, ids) :
                           MarkerOf(ses, j, kind) = MarkerOf(ses, id, kind)})
  /\ \A i \in 1..Len(d.markers) : \A j \in 1..Len(d.markers) :
        i < j => \/ d.markers[i][1] < d.markers[j][1]
                 \/ d.markers[i][1] = d.markers[j][1] /\ d.markers[i][2] <= d.markers[j][2]

\* the tokens of the dictionary
InDictionary(ses) == UNION {Range(ses.dictionary[k]) : k \in DOMAIN ses.dictionary}

\* C34: with colours enabled mark_all_words (run when Selection is entered and when
\* the scroll timer fires in Selection) issues exactly one paint call for each
\* dictionary token whose line is in the visible range and none for the others, in
\* ascending (line, column) order; on_click, redraw after a typed character and
\* _update_edit_markers (the scroll timer in Editing) do the same for the tokens of
\* the active word
C34_PaintsShownTokens ==
  [][\A h \in DOMAIN docs \cap DOMAIN docs' :
       last'.h = h =>
         /\ (/\ InSelection(World, h)'
             /\ sessions'[h].use_colors
             /\ last'.ev = "scroll_timer" \/ ~InSelection(World, h))
            => Painted(sessions'[h], docs'[h], InDictionary(sessions'[h]), "bg")
         /\ (/\ Editing(World, h)'
             /\ \/ last'.ev \in {"click", "scroll_timer"}
                \/ last'.ev = "key" /\ last'.arg \in TypedChars /\ last'.ret)
            => Painted(sessions'[h], docs'[h],
                       Range(Bucket(sessions'[h], sessions'[h].our_key)), "border")]_vars

\* ---------------------------------------------------------------------------
\* C35: the two flags of a session

\* C35: in every reachable state no session is both selected and editing: a session
\* is in Selection (selected, not editing), in Editing (editing, not selected) or
\* has neither flag
C35_NeverBothFlags ==
  \A h \in DOMAIN sessions :
     /\ ~(sessions[h].selected /\ sessions[h].editing)
     /\ ModeOf(World, h) \in {"Inactive", "Selection", "Editing"}
     /\ ModeOf(World, h) = "Selection" <=> (sessions[h].selected /\ ~sessions[h].editing)
     /\ ModeOf(World, h) = "Editing" <=> (sessions[h].editing /\ ~sessions[h].selected)

\* a second click started Editing again, after keys had been typed and the session
\* had been back in Selection
C35_Witness ==
  /\ last.ev = "click" /\ last.h = H
  /\ nkeys = MaxKeys
  /\ sessions[H].editing /\ ~sessions[H].selected
  /\ sessions[H].original = last.arg

\* ---------------------------------------------------------------------------
\* C36: the active word of an editing session

\* the active word of session ses is set and is a key of the dictionary with tokens,
\* and the recorded occurrence index is an index into them
ActiveWordIndexed(ses) ==
  /\ ~NoKey(ses.our_key)
  /\ ses.our_key \in DOMAIN ses.dictionary
  /\ ses.dictionary[ses.our_key] # <<>>
  /\ ses.original_occurrence_index # NoneInt
  /\ ses.original_occurrence_index \in 0..(Len(ses.dictionary[ses.our_key]) - 1)

\* C36: whenever a session is in Editing after an event, its active word is set and
\* is a key of the dictionary with a non-empty token list (redraw has restored it),
\* the recorded occurrence index is a valid index into that list, and after the
\* click that started the edit the token at that index holds the click
C36_ActiveWordIndexed ==
  [][\A h \in DOMAIN sessions' :
       sessions'[h].editing
       => /\ ActiveWordIndexed(sessions'[h])
          /\ (last'.ev = "click" /\ last'.h = h)
             => TokenHolds(sessions'[h], sessions'[h].our_key,
                           sessions'[h].original_occurrence_index + 1,
                           last'.arg[1], last'.arg[2])]_vars

\* ---------------------------------------------------------------------------
\* C37: the span of a token and the length of its text

\* token t starts at a column of the line and is as long as its recorded text
SpanOfText(t) ==
  /\ 0 <= t.start_x
  /\ t.start_x <= t.end_x
  /\ t.end_x - t.start_x = Len(t.text)

\* C37: in every reachable state every token of the index has 0 <= start_x <= end_x
\* and end_x - start_x equal to the length of its recorded text, and all tokens of
\* one dictionary bucket have recorded texts of the same length
C37_SpansMatchText ==
  \A h \in DOMAIN sessions :
     /\ \A id \in Referenced(sessions[h]) : SpanOfText(sessions[h].tokens[id])
     /\ \A key \in DOMAIN sessions[h].dictionary :
           \A i \in Range(sessions[h].dictionary[key]) :
              \A j \in Range(sessions[h].dictionary[key]) :
                 Len(sessions[h].tokens[i].text) = Len(sessions[h].tokens[j].text)

\* two typed characters made the edited word three characters long on all its
\* occurrences, and another token follows one of them on its line
C37_Witness ==
  /\ Editing(World, H) /\ nkeys = MaxKeys
  /\ ~NoKey(sessions[H].our_key)
  /\ Len(sessions[H].our_key) = 3
  /\ Len(Bucket(sessions[H], sessions[H].our_key)) >= 2
  /\ \A id \in EditedTokens(sessions[H]) :
        sessions[H].tokens[id].text = sessions[H].our_key
  /\ \E id \in EditedTokens(sessions[H]) :
        \E o \in Referenced(sessions[H]) \ EditedTokens(sessions[H]) :
           /\ sessions[H].tokens[o].start_y = sessions[H].tokens[id].start_y
           /\ sessions[H].tokens[o].start_x > sessions[H].tokens[id].end_x

\* ---------------------------------------------------------------------------
\* C38: the handle sets and the sessions

\* C38: between events the handle of a document is in active_caret_handles iff it is
\* in active_scroll_handles iff the document has a session in Selection or Editing,
\* and a handle in selection_scroll_handles has no active session
C38_HandleSetsFollowSessions ==
  \A h \in Handles :
     /\ h \in active_caret_handles <=> h \in active_scroll_handles
     /\ h \in active_scroll_handles <=> Active(World, h)
     /\ h \in selection_scroll_handles => ~Active(World, h)

\* the other document is in Editing and dispatches scroll and caret events, while
\* document H, without session, has a selection whose scrolling is tracked
C38_Witness ==
  /\ last.ev = "select" /\ last.h = H
  /\ H \in selection_scroll_handles
  /\ ~has_session(World, H)
  /\ \E h \in DOMAIN docs \ {H} :
        /\ Editing(World, h)
        /\ h \in active_caret_handles /\ h \in active_scroll_handles
        /\ h \notin selection_scroll_handles
  /\ H \notin active_caret_handles /\ H \notin active_scroll_handles

(***************************************************************************)
(* The deferred start and its 600 ms timer.                                *)
(***************************************************************************)
\* the number of pending 600 ms timers of document h
PendingLexerTimers(ts, h) ==
  IF <<"lexer_timer", h>> \in DOMAIN ts THEN ts[<<"lexer_timer", h>>] ELSE 0

\* C39: a document has at most one deferred-start timer pending, and one is
\* pending exactly while its handle is in pending_delay_handles; a start command
\* given while the timer is pending leaves one timer pending, the timer's expiry
\* leaves none pending (so that the two commands are followed by one scan), and a
\* lexer_timer call for a handle that is not in pending_delay_handles changes nothing
C39_OneLexerTimer ==
  [][\A h \in Handles :
       /\ PendingLexerTimers(timers', h) <= 1
       /\ PendingLexerTimers(timers', h) = 1 <=> h \in pending_delay_handles'
       /\ (last'.ev = "toggle" /\ last'.h = h /\ PendingLexerTimers(timers, h) = 1)
          => /\ PendingLexerTimers(timers', h) = 1
             /\ h \in pending_delay_handles'
             /\ Inactive(World', h)
       /\ (last'.ev = "lexer_timer" /\ last'.h = h)
          => /\ PendingLexerTimers(timers', h) = 0
             /\ h \notin pending_delay_handles'
       /\ h \notin pending_delay_handles' => lexer_timer(World', h) = World']_vars

\* document H was started again after the parser's notification of a deferred
\* start: one timer is pending, and its expiry will run the one scan
C39_Witness ==
  /\ last.ev = "toggle" /\ last.h = H
  /\ H \in lexer_parsed_message_shown
  /\ H \in pending_delay_handles
  /\ PendingLexerTimers(timers, H) = 1
  /\ Active(lexer_timer([World EXCEPT !.timers = TimerFired(@, <<"lexer_timer", H>>)], H), H)

\* a pending 600 ms timer of document h goes: the step of LexerTimer(h), as far as
\* the host's timers tell
TimerExpires(h) ==
  /\ <<"lexer_timer", h>> \in DOMAIN timers
  /\ timers' = TimerFired(timers, <<"lexer_timer", h>>)

\* the host fires a started one-shot timer 600 ms later unless it is stopped
SpecTwoFair == SpecTwo /\ \A h \in Handles : WF_timers(TimerExpires(h))

\* the expiry of the 600 ms timer of the open document h ends the deferral: with
\* a session in Selection that found words, or without session and with a message
Resolved(h) ==
  (last'.ev = "lexer_timer" /\ last'.h = h
     /\ h \in pending_delay_handles /\ h \in DOMAIN docs')
  => /\ h \notin pending_delay_handles'
     /\ \/ /\ ModeOf(World', h) = "Selection"
           /\ DOMAIN sessions'[h].dictionary # {}
        \/ /\ ModeOf(World', h) = "Inactive"
           /\ ~has_session(World', h)
           /\ status' # ""

\* C40: a deferred start resolves: when the timer of an open document fires, the
\* handle leaves pending_delay_handles in that step and the document is in
\* Selection with the words found or Inactive with a message; a pending document
\* has no session in Selection or Editing; and a pending document does not stay
\* pending forever
C40_DeferredStartResolves ==
  /\ [][\A h \in Handles : Resolved(h)]_vars
  /\ [](\A h \in pending_delay_handles : ~Active(World, h))
  /\ \A h \in Handles : (h \in pending_delay_handles) ~> (h \notin pending_delay_handles)

\* the timer of document H has just fired after a deferred start and the scan put
\* the document in Selection
C40_Witness ==
  /\ last.ev = "lexer_timer" /\ last.h = H
  /\ H \notin pending_delay_handles
  /\ PendingLexerTimers(timers, H) = 0
  /\ ModeOf(World, H) = "Selection"
====
